---- MODULE Spec2Model ----
(***************************************************************************)
(* nmcrun collector (internal/collector/collector.go, client-go version):  *)
(* credential resolution (New / getKubernetesConfig), the versioned        *)
(* resource resolver (getResourceAsYAML and the list fallbacks), the       *)
(* namespace bundle (Run / processNamespace), the workload bundle          *)
(* (CollectWorkloadInfo), the scheduler dump (CollectSchedulerInfo) and    *)
(* the environment tests (RunTests).                                       *)
(*                                                                         *)
(* The cluster and the file system are the environment: every cluster call *)
(* and every file-system call draws its outcome nondeterministically at    *)
(* the moment the code issues it.                                          *)
(*                                                                         *)
(* Further specifications cover two CollectWorkloadInfo calls running in   *)
(* one working directory, the entry points as single passes that are       *)
(* scheduled fairly, and the working directory of the process during the   *)
(* scheduler dump.                                                         *)
(***************************************************************************)
EXTENDS Integers, Sequences, FiniteSets, TLC

VARIABLES
    pc,          \* position of the process
    env,         \* process environment read by the credential strategies
    attempted,   \* credential strategies attempted so far, in order
    restConfig,  \* the *rest.Config getKubernetesConfig returned (or NoConfig)
    configErr,   \* the error getKubernetesConfig returned (or Nil)
    collector,   \* the *Collector New returned (or NoCollector)
    newErr,      \* the error New returned (or Nil)
    args,        \* arguments of the entry point being run
    calls,       \* kinds of cluster API calls issued so far
    retErr,      \* error returned by the entry point (Nil while running / on success)
    stdout,      \* the progress messages printed so far that the properties speak of
    resolved,    \* the last application of a resolver: its inputs and its result
    cpURL,       \* Run: control plane URL found by extractClusterInfo
    nsIdx,       \* Run: index of the namespace of the current loop iteration
    status,      \* Run: per namespace, how its iteration ended
    dir,         \* processNamespace: the file tree at logDir
    succeeded,   \* processNamespace: files whose step succeeded in this run
    invoked,     \* processNamespace: per namespace, collection steps invoked so far, in order
    warned,      \* processNamespace: steps a warning was printed for
    auxIdx,      \* collectRunaiInfo / collectBackendInfo: index of the next action
    archive,     \* processNamespace: the file at archiveName
    scriptLog,   \* processNamespace: the lines written to script.log so far
    partialWrites,  \* number of writes that failed after creating the file
    canonicalType,  \* CollectWorkloadInfo: canonical workload kind
    namespace,      \* CollectWorkloadInfo: namespace resolved from the project
    outputFiles,    \* CollectWorkloadInfo: files collected so far, in order
    cwdFiles,       \* CollectWorkloadInfo: files of the current directory
    wlSteps,        \* CollectWorkloadInfo: collection steps attempted so far
    wlArchive,      \* CollectWorkloadInfo: the file at archiveName
    tempDir,        \* CollectSchedulerInfo: the file tree at tempDir
    schedIdx,       \* CollectSchedulerInfo: index of the resource kind dumped next
    dumped,         \* CollectSchedulerInfo: how the dump of each kind ended, in order
    schedArchive,   \* CollectSchedulerInfo: the file at archiveFile
    cwd,            \* CollectSchedulerInfo: the working directory of the process
    runs,           \* concurrent CollectWorkloadInfo calls: per project, the state of its call
    sharedDir       \* concurrent CollectWorkloadInfo calls: the files of the process's directory

vars ==
    <<pc, env, attempted, restConfig, configErr, collector, newErr, args, calls,
      retErr, stdout, resolved, cpURL, nsIdx, status, dir, succeeded, invoked,
      warned, auxIdx, archive, scriptLog, partialWrites, canonicalType, namespace,
      outputFiles, cwdFiles, wlSteps, wlArchive, tempDir, schedIdx, dumped,
      schedArchive, cwd, runs, sharedDir>>

procVars == <<args, calls, retErr, stdout>>
resVars == <<resolved>>
runVars ==
    <<cpURL, nsIdx, status, dir, succeeded, invoked, warned, auxIdx, archive,
      scriptLog, partialWrites>>
wlVars == <<canonicalType, namespace, outputFiles, cwdFiles, wlSteps, wlArchive>>
authVars == <<env, attempted, restConfig, configErr, collector, newErr>>
schedVars == <<tempDir, schedIdx, dumped, schedArchive, cwd>>
concVars == <<runs, sharedDir>>

Nil == "nil"

(***************************************************************************)
(* Credential resolution: New and getKubernetesConfig.                     *)
(***************************************************************************)

\* A rest.Config, by what the strategies set in it.
NoConfig == [method |-> "none", bearerToken |-> "none", tls |-> "none"]

\* The nil *Collector.
NoCollector == [config |-> NoConfig, namespaces |-> <<>>]

\* What the four strategies read: the outcome of rest.InClusterConfig, the
\* kubeconfig loading rules, the service-account mount and the process
\* environment variables.
Environments ==
    [inCluster : BOOLEAN,
     kubeconfig : {"loadError", "invalid", "ok"},
     tokenFile : {"missing", "unreadable", "ok"},
     caCertFile : BOOLEAN,
     host : BOOLEAN,
     port : BOOLEAN,
     token : BOOLEAN,
     caCertEnv : BOOLEAN]

Failed(e) == [config |-> NoConfig, err |-> e]
Built(c) == [config |-> c, err |-> Nil]

tryInClusterAuth(e) ==
    IF e.inCluster
    THEN Built([method |-> "inCluster", bearerToken |-> "file", tls |-> "caFile"])
    ELSE Failed("unable to load in-cluster configuration")

tryKubeconfigAuth(e) ==
    CASE e.kubeconfig = "loadError" -> Failed("kubeconfig load error")
      [] e.kubeconfig = "invalid" -> Failed("invalid kubeconfig configuration")
      [] OTHER -> Built([method |-> "kubeconfig", bearerToken |-> "kubeconfig",
                         tls |-> "kubeconfig"])

tryServiceAccountTokenAuth(e) ==
    CASE e.tokenFile = "missing" -> Failed("service account token file not found")
      [] e.tokenFile = "unreadable" -> Failed("failed to read service account token")
      [] ~e.host \/ ~e.port ->
            Failed("KUBERNETES_SERVICE_HOST or KUBERNETES_SERVICE_PORT environment variables not set")
      [] OTHER -> Built([method |-> "serviceAccountToken", bearerToken |-> "file",
                         tls |-> IF e.caCertFile THEN "caFile" ELSE "insecure"])

tryEnvironmentAuth(e) ==
    IF ~e.host \/ ~e.port
    THEN Failed("KUBERNETES_SERVICE_HOST or KUBERNETES_SERVICE_PORT environment variables not set")
    ELSE Built([method |-> "environment",
                bearerToken |-> IF e.token THEN "env" ELSE "none",
                tls |-> IF e.caCertEnv THEN "caEnv" ELSE "insecure"])

\* The order in which getKubernetesConfig tries the strategies.
StrategyOrderKubeconfigFirst ==
    <<"kubeconfig", "inCluster", "serviceAccountToken", "environment">>

StrategyOrder == <<"inCluster", "kubeconfig", "serviceAccountToken", "environment">>

tryStrategy(m, e) ==
    CASE m = "inCluster" -> tryInClusterAuth(e)
      [] m = "kubeconfig" -> tryKubeconfigAuth(e)
      [] m = "serviceAccountToken" -> tryServiceAccountTokenAuth(e)
      [] OTHER -> tryEnvironmentAuth(e)

AuthenticationError == "no valid Kubernetes authentication method found"

\* One `if config, err := try...(); err == nil { return config, nil }` of
\* getKubernetesConfig: the next strategy in order is attempted; on success the
\* function returns its config, on failure the error is dropped.
TryNextStrategy ==
    /\ pc = "getKubernetesConfig"
    /\ Len(attempted) < Len(StrategyOrder)
    /\ LET m == StrategyOrder[Len(attempted) + 1]
           r == tryStrategy(m, env)
       IN /\ attempted' = Append(attempted, m)
          /\ IF r.err = Nil
             THEN /\ restConfig' = r.config
                  /\ pc' = "New"
             ELSE /\ restConfig' = restConfig
                  /\ pc' = pc
    /\ UNCHANGED <<env, configErr, collector, newErr>>

\* The final return of getKubernetesConfig, reached when no strategy succeeded.
AllStrategiesFailed ==
    /\ pc = "getKubernetesConfig"
    /\ Len(attempted) = Len(StrategyOrder)
    /\ configErr' = AuthenticationError
    /\ pc' = "New"
    /\ UNCHANGED <<env, attempted, restConfig, collector, newErr>>

\* What New returns, given getKubernetesConfig's result and the outcomes of
\* kubernetes.NewForConfig and dynamic.NewForConfig.
NewResultIgnoringConfigError(cfg, cerr, clientsetOk, dynamicOk) ==
    CASE ~clientsetOk -> [collector |-> NoCollector, err |-> "failed to create clientset"]
      [] ~dynamicOk -> [collector |-> NoCollector, err |-> "failed to create dynamic client"]
      [] OTHER -> [collector |-> [config |-> cfg, namespaces |-> <<"runai-backend", "runai">>],
                   err |-> Nil]

NewResult(cfg, cerr, clientsetOk, dynamicOk) ==
    CASE cerr # Nil -> [collector |-> NoCollector, err |-> "failed to create Kubernetes config"]
      [] ~clientsetOk -> [collector |-> NoCollector, err |-> "failed to create clientset"]
      [] ~dynamicOk -> [collector |-> NoCollector, err |-> "failed to create dynamic client"]
      [] OTHER -> [collector |-> [config |-> cfg, namespaces |-> <<"runai-backend", "runai">>],
                   err |-> Nil]

\* The rest of New after getKubernetesConfig returned.
New ==
    /\ pc = "New"
    /\ \E clientsetOk \in BOOLEAN, dynamicOk \in BOOLEAN :
          LET r == NewResult(restConfig, configErr, clientsetOk, dynamicOk)
          IN /\ collector' = r.collector
             /\ newErr' = r.err
    /\ pc' = "caller"
    /\ UNCHANGED <<env, attempted, restConfig, configErr>>

(***************************************************************************)
(* The versioned resource resolver.                                        *)
(***************************************************************************)

GVR(g, v, r) == [Group |-> g, Version |-> v, Resource |-> r]
NoGVR == GVR("", "", "")

\* The candidate table of getResourceAsYAML.
gvrCandidates ==
    [runaiconfig |-> <<GVR("run.ai", "v1", "runaiconfigs")>>,
     rj |-> <<GVR("run.ai", "v1", "runaijobs")>>,
     pg |-> <<GVR("scheduling.run.ai", "v1", "podgroups"),
              GVR("scheduling.k8s.io", "v1", "podgroups")>>,
     ksvc |-> <<GVR("serving.knative.dev", "v1", "services")>>,
     trainingworkloads |-> <<GVR("run.ai", "v1", "trainingworkloads"),
                             GVR("run.ai", "v2alpha1", "trainingworkloads")>>,
     interactiveworkloads |-> <<GVR("run.ai", "v1", "interactiveworkloads"),
                                GVR("run.ai", "v2alpha1", "interactiveworkloads")>>,
     inferenceworkloads |-> <<GVR("run.ai", "v1", "inferenceworkloads"),
                              GVR("run.ai", "v2alpha1", "inferenceworkloads")>>,
     distributedworkloads |-> <<GVR("run.ai", "v1", "distributedworkloads"),
                                GVR("run.ai", "v2alpha1", "distributedworkloads")>>,
     distributedinferenceworkloads |->
         <<GVR("run.ai", "v1", "distributedinferenceworkloads"),
           GVR("run.ai", "v2alpha1", "distributedinferenceworkloads")>>,
     externalworkloads |-> <<GVR("run.ai", "v1", "externalworkloads"),
                             GVR("run.ai", "v2alpha1", "externalworkloads")>>,
     projects |-> <<GVR("run.ai", "v2", "projects")>>,
     queues |-> <<GVR("scheduling.run.ai", "v2", "queues")>>,
     nodepools |-> <<GVR("run.ai", "v1alpha1", "nodepools")>>,
     departments |-> <<GVR("scheduling.run.ai", "v1", "departments")>>]
    @@ ("configs.engine.run.ai" :> <<GVR("engine.run.ai", "v1", "configs")>>)

\* The keys of the table, ksvc missing.
ResourceKeysWithoutKsvc == DOMAIN gvrCandidates \ {"ksvc"}

ResourceKeys == DOMAIN gvrCandidates

\* The candidate table of dumpSchedulerResource.
schedulerGvrCandidates ==
    [projects |-> <<GVR("run.ai", "v2", "projects")>>,
     queues |-> <<GVR("scheduling.run.ai", "v2", "queues")>>,
     nodepools |-> <<GVR("run.ai", "v1alpha1", "nodepools")>>,
     departments |-> <<GVR("scheduling.run.ai", "v1", "departments")>>]

\* The two coordinates getPodGroupsWithLabels lists, in its order.
podGroupGVRs ==
    <<GVR("scheduling.run.ai", "v1", "podgroups"),
      GVR("scheduling.k8s.io", "v1", "podgroups")>>

\* Outcome of one get or list against the cluster: it succeeds, or fails with
\* one of the API errors.
ApiErrors == {"NotFound", "Transport"}
ApiOutcomes == {"ok"} \cup ApiErrors

\* An error value: its cause and the coordinate of the call that produced it.
NoError == [kind |-> Nil, gvr |-> NoGVR]
ApiError(kind, gvr) == [kind |-> kind, gvr |-> gvr]
LocalError(kind) == [kind |-> kind, gvr |-> NoGVR]

\* An object read from the cluster, by where it was read from.
NoObject == [gvr |-> NoGVR, items |-> -1]
Object(gvr) == [gvr |-> gvr, items |-> -1]
ObjectList(gvr, n) == [gvr |-> gvr, items |-> n]

\* objectToYAML: the YAML text of an object; yaml.Marshal may fail.
NoText == [format |-> "none", of |-> NoObject]
objectToYAML(obj, marshalOk) ==
    IF marshalOk
    THEN [text |-> [format |-> "yaml", of |-> obj], err |-> NoError]
    ELSE [text |-> NoText, err |-> LocalError("yaml marshal error")]

\* The loop `for _, gvr := range gvrList` of getResourceAsYAML from candidate i
\* on: out[i] is the outcome of the get against candidate i.
RECURSIVE tryEachGVRLastSuccessWins(_, _, _, _, _, _)
tryEachGVRLastSuccessWins(gvrList, out, marshalOk, i, lastErr, probed) ==
    IF i > Len(gvrList)
    THEN IF \E j \in 1..Len(gvrList) : out[j] = "ok"
         THEN LET k == CHOOSE j \in 1..Len(gvrList) :
                          /\ out[j] = "ok"
                          /\ \A l \in 1..Len(gvrList) : out[l] = "ok" => l <= j
                  y == objectToYAML(Object(gvrList[k]), marshalOk)
              IN [text |-> y.text, err |-> y.err, probed |-> probed]
         ELSE [text |-> NoText, err |-> lastErr, probed |-> probed]
    ELSE tryEachGVRLastSuccessWins(gvrList, out, marshalOk, i + 1,
             IF out[i] = "ok" THEN lastErr ELSE ApiError(out[i], gvrList[i]),
             Append(probed, gvrList[i]))

RECURSIVE tryEachGVRFirstError(_, _, _, _, _, _)
tryEachGVRFirstError(gvrList, out, marshalOk, i, lastErr, probed) ==
    IF i > Len(gvrList)
    THEN [text |-> NoText, err |-> lastErr, probed |-> probed]
    ELSE IF out[i] = "ok"
         THEN LET y == objectToYAML(Object(gvrList[i]), marshalOk)
              IN [text |-> y.text, err |-> y.err, probed |-> Append(probed, gvrList[i])]
         ELSE tryEachGVRFirstError(gvrList, out, marshalOk, i + 1,
                  IF lastErr = NoError THEN ApiError(out[i], gvrList[i]) ELSE lastErr,
                  Append(probed, gvrList[i]))

RECURSIVE tryEachGVR(_, _, _, _, _, _)
tryEachGVR(gvrList, out, marshalOk, i, lastErr, probed) ==
    IF i > Len(gvrList)
    THEN [text |-> NoText, err |-> lastErr, probed |-> probed]
    ELSE IF out[i] = "ok"
         THEN LET y == objectToYAML(Object(gvrList[i]), marshalOk)
              IN [text |-> y.text, err |-> y.err, probed |-> Append(probed, gvrList[i])]
         ELSE tryEachGVR(gvrList, out, marshalOk, i + 1,
                  ApiError(out[i], gvrList[i]), Append(probed, gvrList[i]))

\* getResourceAsYAML(namespace, resource, name) against a cluster whose get of
\* candidate i has outcome out[i].
getResourceAsYAML(resource, out, marshalOk) ==
    IF resource \notin ResourceKeys
    THEN [text |-> NoText, err |-> LocalError("unknown resource type"), probed |-> <<>>]
    ELSE tryEachGVR(gvrCandidates[resource], out, marshalOk, 1, NoError, <<>>)

\* getPodGroupsWithLabels: list under scheduling.run.ai, and on any error
\* return whatever the list under scheduling.k8s.io returns.  n is the number
\* of items of a successful list.
getPodGroupsWithLabels(out, n) ==
    IF out[1] = "ok"
    THEN [list |-> ObjectList(podGroupGVRs[1], n), err |-> NoError,
          probed |-> <<podGroupGVRs[1]>>]
    ELSE IF out[2] = "ok"
         THEN [list |-> ObjectList(podGroupGVRs[2], n), err |-> NoError,
               probed |-> podGroupGVRs]
         ELSE [list |-> NoObject, err |-> ApiError(out[2], podGroupGVRs[2]),
               probed |-> podGroupGVRs]

\* The list loop of dumpSchedulerResource from candidate i on; a failed List
\* returns a nil list, so resourceList is nil until a candidate succeeds.
RECURSIVE listEachGVR(_, _, _, _, _, _)
listEachGVR(gvrList, out, n, i, lastErr, probed) ==
    IF i > Len(gvrList)
    THEN [list |-> NoObject, err |-> lastErr, probed |-> probed]
    ELSE IF out[i] = "ok"
         THEN [list |-> ObjectList(gvrList[i], n), err |-> lastErr,
               probed |-> Append(probed, gvrList[i])]
         ELSE listEachGVR(gvrList, out, n, i + 1,
                  ApiError(out[i], gvrList[i]), Append(probed, gvrList[i]))

listSchedulerResource(resourceType, out, n) ==
    listEachGVR(schedulerGvrCandidates[resourceType], out, n, 1, NoError, <<>>)

(***************************************************************************)
(* Workload type aliases.                                                  *)
(***************************************************************************)

getCanonicalWorkloadTypeDwAsDinfw(workloadType) ==
    CASE workloadType \in {"dinfw", "distributedinferenceworkloads", "dw"} ->
            "distributedinferenceworkloads"
      [] workloadType \in {"distributedworkloads"} -> "distributedworkloads"
      [] workloadType \in {"ew", "externalworkloads"} -> "externalworkloads"
      [] workloadType \in {"infw", "inferenceworkloads"} -> "inferenceworkloads"
      [] workloadType \in {"iw", "interactiveworkloads"} -> "interactiveworkloads"
      [] workloadType \in {"tw", "trainingworkloads"} -> "trainingworkloads"
      [] OTHER -> ""

getCanonicalWorkloadTypeOrResourceKey(workloadType) ==
    CASE workloadType \in {"dinfw", "distributedinferenceworkloads"} ->
            "distributedinferenceworkloads"
      [] workloadType \in {"dw", "distributedworkloads"} -> "distributedworkloads"
      [] workloadType \in {"ew", "externalworkloads"} -> "externalworkloads"
      [] workloadType \in {"infw", "inferenceworkloads"} -> "inferenceworkloads"
      [] workloadType \in {"iw", "interactiveworkloads"} -> "interactiveworkloads"
      [] workloadType \in {"tw", "trainingworkloads"} -> "trainingworkloads"
      [] workloadType \in ResourceKeys -> workloadType
      [] OTHER -> ""

getCanonicalWorkloadType(workloadType) ==
    CASE workloadType \in {"dinfw", "distributedinferenceworkloads"} ->
            "distributedinferenceworkloads"
      [] workloadType \in {"dw", "distributedworkloads"} -> "distributedworkloads"
      [] workloadType \in {"ew", "externalworkloads"} -> "externalworkloads"
      [] workloadType \in {"infw", "inferenceworkloads"} -> "inferenceworkloads"
      [] workloadType \in {"iw", "interactiveworkloads"} -> "interactiveworkloads"
      [] workloadType \in {"tw", "trainingworkloads"} -> "trainingworkloads"
      [] OTHER -> ""

\* Workload types a caller may pass: the aliases, the kind names, and strings
\* that are neither.
Aliases == {"tw", "iw", "infw", "dw", "dinfw", "ew"}
CanonicalKinds ==
    {"trainingworkloads", "interactiveworkloads", "inferenceworkloads",
     "distributedworkloads", "distributedinferenceworkloads", "externalworkloads"}
UnrecognizedTypes == {"bogus", "", "TW", "pg", "training/workloads"}
WorkloadTypeInputs == Aliases \cup CanonicalKinds \cup UnrecognizedTypes

(***************************************************************************)
(* The pure functions applied to every input of their bounded domains.     *)
(***************************************************************************)

\* Largest number of items a list call returns.
MaxItems == 2

NoArgs == [project |-> "", workloadType |-> "", name |-> ""]

\* A directory that does not exist; an archive file that does not exist.
NoDir == [exists |-> FALSE, logs |-> FALSE, files |-> <<>>]
NoArchive ==
    [exists |-> FALSE, sealed |-> FALSE, dirs |-> {}, entries |-> <<>>, scriptLog |-> <<>>]
NoTempDir == [exists |-> FALSE, files |-> <<>>]

\* The projects whose workloads are collected at the same time, and their
\* calls of CollectWorkloadInfo before any of them has taken a step.
\* The working directory of the process before CollectSchedulerInfo: the
\* original directory, the temp directory not entered, tar not run.
InOriginalDir == [dir |-> "original", entered |-> FALSE, tarRanIn |-> Nil]

ConcurrentProjects == {"team-a", "team-b"}
NotStarted ==
    [p \in ConcurrentProjects |->
        [pc |-> "getNamespaceByLabel", namespace |-> "", outputFiles |-> <<>>,
         archive |-> [exists |-> FALSE, sealed |-> FALSE, entries |-> <<>>],
         retErr |-> Nil]]
NotResolved == [fn |-> "none"]

\* The values every variable has before the code that uses it has run.
Fresh(pc0) ==
    /\ pc = pc0
    /\ attempted = <<>>
    /\ restConfig = NoConfig
    /\ configErr = Nil
    /\ collector = NoCollector
    /\ newErr = Nil
    /\ args = NoArgs
    /\ calls = {}
    /\ retErr = Nil
    /\ stdout = <<>>
    /\ resolved = NotResolved
    /\ cpURL = <<"unknown">>
    /\ nsIdx = 1
    /\ status = [n \in {"runai-backend", "runai"} |->
                    [get |-> "pending", result |-> "pending", artifacts |-> {}]]
    /\ dir = NoDir
    /\ succeeded = {}
    /\ invoked = [n \in {"runai-backend", "runai"} |-> <<>>]
    /\ warned = {}
    /\ auxIdx = 1
    /\ archive = NoArchive
    /\ scriptLog = <<>>
    /\ partialWrites = 0
    /\ canonicalType = ""
    /\ namespace = ""
    /\ outputFiles = <<>>
    /\ cwdFiles = <<>>
    /\ wlSteps = <<>>
    /\ wlArchive = NoArchive
    /\ tempDir = NoTempDir
    /\ schedIdx = 1
    /\ dumped = <<>>
    /\ schedArchive = NoArchive
    /\ cwd = InOriginalDir
    /\ runs = NotStarted
    /\ sharedDir = <<>>

ApplyGetResourceAsYAML ==
    /\ pc = "pure"
    /\ \E resource \in ResourceKeys \cup {"bogus"}, marshalOk \in BOOLEAN :
          LET n == IF resource \in ResourceKeys THEN Len(gvrCandidates[resource]) ELSE 0
          IN \E out \in [1..n -> ApiOutcomes] :
                resolved' = [fn |-> "getResourceAsYAML", resource |-> resource,
                             out |-> out, marshalOk |-> marshalOk,
                             res |-> getResourceAsYAML(resource, out, marshalOk)]
    /\ UNCHANGED <<pc, authVars, concVars, schedVars, procVars, runVars,
                   wlVars>>

ApplyGetPodGroupsWithLabels ==
    /\ pc = "pure"
    /\ \E out \in [1..2 -> ApiOutcomes], n \in 0..MaxItems :
          resolved' = [fn |-> "getPodGroupsWithLabels", out |-> out, n |-> n,
                       res |-> getPodGroupsWithLabels(out, n)]
    /\ UNCHANGED <<pc, authVars, concVars, schedVars, procVars, runVars,
                   wlVars>>

ApplyListSchedulerResource ==
    /\ pc = "pure"
    /\ \E resourceType \in DOMAIN schedulerGvrCandidates, n \in 0..MaxItems :
          \E out \in [1..Len(schedulerGvrCandidates[resourceType]) -> ApiOutcomes] :
             resolved' = [fn |-> "listSchedulerResource", resource |-> resourceType,
                          out |-> out, n |-> n,
                          res |-> listSchedulerResource(resourceType, out, n)]
    /\ UNCHANGED <<pc, authVars, concVars, schedVars, procVars, runVars,
                   wlVars>>

ApplyGetCanonicalWorkloadType ==
    /\ pc = "pure"
    /\ \E t \in WorkloadTypeInputs :
          resolved' = [fn |-> "getCanonicalWorkloadType", input |-> t,
                       res |-> getCanonicalWorkloadType(t),
                       again |-> getCanonicalWorkloadType(getCanonicalWorkloadType(t))]
    /\ UNCHANGED <<pc, authVars, concVars, schedVars, procVars, runVars,
                   wlVars>>

\* An operator's workstation: a valid kubeconfig file and nothing else.
WorkstationEnv ==
    [inCluster |-> FALSE, kubeconfig |-> "ok", tokenFile |-> "missing",
     caCertFile |-> FALSE, host |-> FALSE, port |-> FALSE, token |-> FALSE,
     caCertEnv |-> FALSE]

InitPure ==
    /\ Fresh("pure")
    /\ env = WorkstationEnv

NextPure ==
    \/ ApplyGetResourceAsYAML
    \/ ApplyGetPodGroupsWithLabels
    \/ ApplyListSchedulerResource
    \/ ApplyGetCanonicalWorkloadType

SpecPure == InitPure /\ [][NextPure]_vars

(***************************************************************************)
(* The caller of New and the first statements of the four entry points.    *)
(***************************************************************************)

EntryPoints == {"Run", "CollectWorkloadInfo", "CollectSchedulerInfo", "RunTests"}

\* A cluster API call, by verb and resource.
Call(verb, resource) == [verb |-> verb, resource |-> resource]

\* namespaceExists testing for the namespace by trying to create it.
namespaceExistsCallCreating == Call("create", "namespaces")

\* The call namespaceExists makes: a get of the namespace.
namespaceExistsCall == Call("get", "namespaces")

Printed(what, about) == [what |-> what, about |-> about]

\* Control plane URLs: a string is the sequence of its pieces.
ControlPlaneURLs == {<<"unknown">>, <<"https://", "cp", ".", "run", ".", "ai">>}

WorkloadArgs ==
    [project : {"team-a"}, workloadType : WorkloadTypeInputs, name : {"job1"}]

\* `collector, err := collector.New(); if err != nil { return ... }`
CallerReturnsOnError ==
    /\ pc = "caller"
    /\ newErr # Nil
    /\ pc' = "exit"
    /\ UNCHANGED <<authVars, concVars, schedVars, procVars, resVars, runVars,
                   wlVars>>

\* The caller invokes an entry point on what New returned; with
\* `collector, _ := collector.New()` that is the nil *Collector.
CallerInvokes ==
    /\ pc = "caller"
    /\ \E e \in EntryPoints :
          /\ pc' = e
          /\ IF e = "CollectWorkloadInfo"
             THEN args' \in WorkloadArgs
             ELSE args' = args
    /\ UNCHANGED <<authVars, concVars, schedVars, calls, retErr, stdout,
                   resVars, runVars, wlVars>>

\* Run up to the namespace loop: checkRequiredTools, extractClusterInfo (a get
\* of runaiconfigs through c.dynamicClient, which a nil receiver cannot reach)
\* and cleanControlPlaneName.
RunStart ==
    /\ pc = "Run"
    /\ IF collector = NoCollector
       THEN /\ pc' = "panic"
            /\ UNCHANGED <<calls, cpURL>>
       ELSE /\ calls' = calls \cup {Call("get", "runaiconfigs")}
            /\ cpURL' \in ControlPlaneURLs
            /\ pc' = "Run_loop"
    /\ UNCHANGED <<authVars, concVars, schedVars, args, retErr, stdout, resVars,
                   nsIdx, status, dir, succeeded, invoked, warned, auxIdx,
                   archive, scriptLog, partialWrites, wlVars>>

\* CollectWorkloadInfo up to the collection steps: the type is validated, then
\* the namespace is looked up by label through c.clientset.
\* What the list of the namespaces labelled runai/queue=<project> can hold:
\* nothing, the namespace of the project, or two namespaces.
MatchedNamespaces ==
    {<<>>, <<"runai-team-a">>, <<"runai-team-a-old", "runai-team-a">>}

\* getNamespaceByLabel taking the last item of the list.
getNamespaceByLabelLastItem(listOk, items) ==
    IF ~listOk THEN [name |-> "", err |-> "list failed"]
    ELSE IF Len(items) = 0
         THEN [name |-> "", err |-> "no namespace found with label"]
         ELSE [name |-> items[Len(items)], err |-> Nil]

\* getNamespaceByLabel: the error of the list call, an error when the list
\* is empty, and the name of its first item otherwise.
getNamespaceByLabel(listOk, items) ==
    IF ~listOk THEN [name |-> "", err |-> "list failed"]
    ELSE IF Len(items) = 0
         THEN [name |-> "", err |-> "no namespace found with label"]
         ELSE [name |-> items[1], err |-> Nil]

\* CollectWorkloadInfo up to the first collection step: the type, then the
\* namespace of the project. The names the API server returns hold no
\* white space, so the trimmed name is blank only when the name is empty.
CollectWorkloadInfoStart ==
    /\ pc = "CollectWorkloadInfo"
    /\ LET canonical == getCanonicalWorkloadType(args.workloadType)
       IN /\ canonicalType' = canonical
          /\ IF canonical = ""
             THEN /\ retErr' = "invalid workload type"
                  /\ pc' = "done"
                  /\ UNCHANGED <<calls, namespace, resolved>>
             ELSE IF collector = NoCollector
                  THEN /\ pc' = "panic"
                       /\ UNCHANGED <<calls, namespace, retErr, resolved>>
                  ELSE /\ calls' = calls \cup {Call("list", "namespaces")}
                       /\ \E listOk \in BOOLEAN, items \in MatchedNamespaces :
                             LET r == getNamespaceByLabel(listOk, items)
                             IN /\ ~listOk => items = <<>>
                                /\ resolved' = [fn |-> "getNamespaceByLabel",
                                                listOk |-> listOk, items |-> items]
                                /\ IF r.err # Nil \/ r.name = ""
                                   THEN /\ namespace' = namespace
                                        /\ pc' = "done"
                                        /\ retErr' = "no namespace found for project"
                                   ELSE /\ namespace' = r.name
                                        /\ pc' = "getWorkloadYAML"
                                        /\ retErr' = retErr
    /\ UNCHANGED <<authVars, concVars, schedVars, args, stdout, runVars,
                   outputFiles, cwdFiles, wlSteps, wlArchive>>

\* CollectSchedulerInfo up to the creation of the temp directory:
\* testClusterConnection lists nodes through c.clientset.
CollectSchedulerInfoStart ==
    /\ pc = "CollectSchedulerInfo"
    /\ IF collector = NoCollector
       THEN /\ pc' = "panic"
            /\ UNCHANGED <<calls, retErr>>
       ELSE /\ calls' = calls \cup {Call("list", "nodes")}
            /\ \E ok \in BOOLEAN :
                  IF ok
                  THEN pc' = "scheduler_mkdir" /\ retErr' = retErr
                  ELSE pc' = "done" /\ retErr' = "cannot connect to Kubernetes cluster"
    /\ UNCHANGED <<authVars, concVars, schedVars, args, stdout, resVars,
                   runVars, wlVars>>

\* RunTests up to the namespace check: testRequiredTools, then
\* testClusterConnectivity lists nodes through c.clientset.
RunTestsStart ==
    /\ pc = "RunTests"
    /\ IF collector = NoCollector
       THEN /\ pc' = "panic"
            /\ UNCHANGED <<calls, retErr>>
       ELSE \E ok \in BOOLEAN :
               IF ok
               THEN /\ calls' = calls \cup {Call("list", "nodes"), Call("get", "version")}
                    /\ pc' = "testRunAINamespaces"
                    /\ retErr' = retErr
               ELSE /\ calls' = calls \cup {Call("list", "nodes")}
                    /\ pc' = "done"
                    /\ retErr' = "cannot connect to cluster"
    /\ UNCHANGED <<authVars, concVars, schedVars, args, stdout, resVars,
                   runVars, wlVars>>

\* The process from its start: New, then an entry point.
InitAuth ==
    /\ Fresh("getKubernetesConfig")
    /\ env \in Environments

NextAuth ==
    \/ (TryNextStrategy /\ UNCHANGED <<procVars, resVars, runVars, wlVars,
                                       schedVars, concVars>>)
    \/ (AllStrategiesFailed /\ UNCHANGED <<procVars, resVars, runVars, wlVars,
                                           schedVars, concVars>>)
    \/ (New /\ UNCHANGED <<procVars, resVars, runVars, wlVars, schedVars,
                           concVars>>)
    \/ CallerReturnsOnError
    \/ CallerInvokes
    \/ RunStart
    \/ CollectWorkloadInfoStart
    \/ CollectSchedulerInfoStart
    \/ RunTestsStart

SpecAuth == InitAuth /\ [][NextAuth]_vars

(***************************************************************************)
(* Properties of credential resolution.                                    *)
(***************************************************************************)

\* The order of the four strategies as documented.
DocumentedOrder == <<"inCluster", "kubeconfig", "serviceAccountToken", "environment">>

Succeeds(k) == tryStrategy(DocumentedOrder[k], env).err = Nil

FirstToSucceed(k) == Succeeds(k) /\ \A j \in 1..(k - 1) : ~Succeeds(j)

\* C1: the strategies are attempted in the documented order, each at most once;
\* every strategy attempted before the last attempted one failed; and once
\* getKubernetesConfig has returned, if strategy k is the first that succeeds
\* then exactly strategies 1..k were attempted, the config returned is the one
\* strategy k builds, and no error is returned.
C1_FixedOrderFirstSuccess ==
    /\ \E k \in 0..4 : attempted = SubSeq(DocumentedOrder, 1, k)
    /\ \A i \in 1..(Len(attempted) - 1) : ~Succeeds(i)
    /\ pc # "getKubernetesConfig" =>
          \A k \in 1..4 :
             FirstToSucceed(k) =>
                /\ attempted = SubSeq(DocumentedOrder, 1, k)
                /\ restConfig = tryStrategy(DocumentedOrder[k], env).config
                /\ restConfig.method = DocumentedOrder[k]
                /\ configErr = Nil

\* C1 witness: the token file strategy is the first to succeed, after the
\* in-cluster and kubeconfig strategies failed.
C1_Witness ==
    /\ pc = "caller"
    /\ attempted = <<"inCluster", "kubeconfig", "serviceAccountToken">>
    /\ restConfig.method = "serviceAccountToken"
    /\ newErr = Nil

AllStrategiesFail == \A k \in 1..4 : ~Succeeds(k)

NoFilesCreated ==
    /\ ~dir.exists
    /\ ~archive.exists
    /\ cwdFiles = <<>>
    /\ ~wlArchive.exists
    /\ outputFiles = <<>>

\* C2: when all four strategies fail, getKubernetesConfig returns the
\* authentication error, New returns an error and no Collector, and whatever
\* the caller then does no entry point issues a cluster call, reaches a
\* collection step or creates a directory, file or archive.
C2_AuthFailureAborts ==
    AllStrategiesFail =>
        /\ pc \in {"getKubernetesConfig", "New", "caller", "exit", "panic", "done"}
              \cup EntryPoints
        /\ pc \notin {"getKubernetesConfig"} =>
              (configErr = AuthenticationError /\ restConfig = NoConfig)
        /\ pc \notin {"getKubernetesConfig", "New"} =>
              (collector = NoCollector /\ newErr # Nil)
        /\ pc = "done" => retErr = "invalid workload type"
        /\ calls = {}
        /\ \A n \in DOMAIN invoked : invoked[n] = <<>>
        /\ wlSteps = <<>>
        /\ NoFilesCreated

\* C2 witness: all strategies failed and the caller's run has ended, by
\* returning the error or in an entry point invoked on the nil Collector.
C2_Witness ==
    /\ AllStrategiesFail
    /\ pc \in {"exit", "panic"}
    /\ configErr = AuthenticationError

(***************************************************************************)
(* The namespace bundle: Run and processNamespace.                         *)
(*                                                                         *)
(* dir, archive, succeeded, warned and auxIdx describe the iteration of    *)
(* Run's loop in progress: logDir and archiveName are locals of the loop   *)
(* body, built from the namespace, so an iteration touches no path of      *)
(* another one.  What an iteration leaves on disk is kept in               *)
(* status[ns].artifacts when the iteration ends.                           *)
(***************************************************************************)

\* Largest number of pods a namespace holds.
MaxPods == 1

\* Largest number of writes per run that fail after the file was created.
MaxPartialWrites == 1

Namespaces == <<"runai-backend", "runai">>

\* File names under logDir: a name is the sequence of its pieces.
ScriptLog == <<"script.log">>
LogFile(pod, container, isInit) ==
    <<"logs", pod, container, IF isInit THEN "_init.log" ELSE ".log">>

\* The action table of collectRunaiInfo.
runaiActions ==
    <<[name |-> "Helm releases info", filename |-> <<"helm_releases_info.txt">>,
       call |-> Call("list", "secrets"), resource |-> ""],
      [name |-> "ConfigMap runai-public", filename |-> <<"cm_runai-public.yaml">>,
       call |-> Call("get", "configmaps"), resource |-> ""],
      [name |-> "Pod list for runai namespace", filename |-> <<"pod-list_runai.txt">>,
       call |-> Call("list", "pods"), resource |-> ""],
      [name |-> "Node list", filename |-> <<"node-list.txt">>,
       call |-> Call("list", "nodes"), resource |-> ""],
      [name |-> "RunAI config", filename |-> <<"runaiconfig.yaml">>,
       call |-> Call("get", "runaiconfigs"), resource |-> "runaiconfig"],
      [name |-> "Engine config", filename |-> <<"engine-config.yaml">>,
       call |-> Call("get", "configs"), resource |-> "configs.engine.run.ai"]>>

\* The action table of collectBackendInfo.
backendActions ==
    <<[name |-> "Pod list for runai-backend namespace",
       filename |-> <<"pod-list_runai-backend.txt">>,
       call |-> Call("list", "pods"), resource |-> ""],
      [name |-> "Helm releases info (backend)",
       filename |-> <<"helm_releases_info_backend.txt">>,
       call |-> Call("list", "secrets"), resource |-> ""]>>

\* The switch of collectAdditionalInfo.
collectAdditionalInfo(ns) ==
    CASE ns = "runai" -> runaiActions
      [] ns = "runai-backend" -> backendActions
      [] OTHER -> <<>>

\* namespaceExists: err == nil of the namespace get.
\* What the get of a namespace can answer besides the namespace: it is not
\* there, the call did not get through, or the account may not read it.
NamespaceGetErrors == ApiErrors \cup {"Forbidden"}

\* namespaceExists taking only NotFound for absence.
namespaceExistsUnlessNotFound(getOutcome) == getOutcome # "NotFound"

namespaceExistsOnAnyAnswer(getOutcome) == getOutcome # "Transport"

namespaceExists(getOutcome) == getOutcome = "ok"

\* The order in which filepath.Walk visits the regular files logDir can hold:
\* lexical by name, the files of logs/ where the directory sorts.
RECURSIVE logFilesInOrder(_)
logFilesInOrder(i) ==
    IF i > MaxPods THEN <<>>
    ELSE <<LogFile(i, "main", FALSE), LogFile(i, "setup", TRUE)>> \o logFilesInOrder(i + 1)

walkOrder(ns) ==
    IF ns = "runai"
    THEN <<runaiActions[2].filename, runaiActions[6].filename, runaiActions[1].filename>>
         \o logFilesInOrder(1)
         \o <<runaiActions[4].filename, runaiActions[3].filename,
              runaiActions[5].filename, ScriptLog>>
    ELSE <<backendActions[2].filename>> \o logFilesInOrder(1)
         \o <<backendActions[1].filename, ScriptLog>>

\* What an earlier run of the same minute against the same control plane
\* leaves at logDir when its createArchive failed: processNamespace returns
\* before os.RemoveAll, so everything that run collected is still there.
leftByEarlierRun(ns) ==
    LET names == {ScriptLog, LogFile(1, "main", FALSE)} \cup
                 {collectAdditionalInfo(ns)[i].filename :
                     i \in 1..Len(collectAdditionalInfo(ns))}
    IN [exists |-> TRUE, logs |-> TRUE, files |-> [f \in names |-> "stale"]]

\* os.WriteFile(path, ...): the file is written whole, or opening it fails and
\* nothing changes, or writing fails after the file was created or truncated.
WriteOutcomes == {"ok", "openFail", "writeFail"}
writeFile(files, path, outcome) ==
    CASE outcome = "ok" -> (path :> "fresh") @@ files
      [] outcome = "writeFail" -> (path :> "partial") @@ files
      [] OTHER -> files

CurrentNamespace == Namespaces[nsIdx]

\* The "continue" after the error of processNamespace and the end of the loop
\* body: Run goes on with the next namespace either way.
afterProcessNamespaceReturnOnError(i, n, failed) == IF failed THEN n + 1 ELSE i + 1

afterProcessNamespace(i, n, failed) == i + 1

\* The end of an iteration of Run's loop: what Run prints when
\* processNamespace returned an error or nil, what stays on disk, and the
\* locals of the loop body going out of scope.
endIteration(ns, result, kinds, artifacts) ==
    /\ stdout' = stdout \o [i \in 1..Len(kinds) |-> Printed(kinds[i], ns)]
    /\ status' = [status EXCEPT ![ns].result = result, ![ns].artifacts = artifacts]
    /\ nsIdx' = afterProcessNamespace(nsIdx, Len(collector.namespaces), result = "failed")
    /\ dir' = NoDir
    /\ archive' = NoArchive
    /\ scriptLog' = <<>>
    /\ succeeded' = {}
    /\ warned' = {}
    /\ auxIdx' = 1
    /\ pc' = "Run_loop"

\* Run: the loop is over; the closing line is printed and nil returned.
RunReturn ==
    /\ pc = "Run_loop"
    /\ nsIdx > Len(collector.namespaces)
    /\ stdout' = Append(stdout, Printed("All namespaces processed successfully!", ""))
    /\ retErr' = Nil
    /\ pc' = "done"
    /\ UNCHANGED <<authVars, concVars, schedVars, args, calls, resVars, runVars,
                   wlVars>>

\* Run: the namespace get of namespaceExists fails; the namespace is skipped.
RunSkipNamespace ==
    /\ pc = "Run_loop"
    /\ nsIdx <= Len(collector.namespaces)
    /\ \E o \in NamespaceGetErrors :
          /\ ~namespaceExists(o)
          /\ calls' = calls \cup {namespaceExistsCall}
          /\ stdout' = Append(stdout, Printed("does not exist. Skipping.", CurrentNamespace))
          /\ status' = [status EXCEPT ![CurrentNamespace].get = o,
                                      ![CurrentNamespace].result = "skipped"]
    /\ nsIdx' = nsIdx + 1
    /\ pc' = pc
    /\ UNCHANGED <<authVars, concVars, schedVars, args, retErr, resVars, cpURL,
                   dir, succeeded, invoked, warned, auxIdx, archive, scriptLog,
                   partialWrites, wlVars>>

\* Run: namespaceExists holds; processNamespace is called on logDir, which is
\* not there yet or was left by an earlier run.
RunEnterNamespace ==
    /\ pc = "Run_loop"
    /\ nsIdx <= Len(collector.namespaces)
    /\ \E o \in {"ok"} \cup NamespaceGetErrors :
          /\ namespaceExists(o)
          /\ status' = [status EXCEPT ![CurrentNamespace].get = o]
    /\ calls' = calls \cup {namespaceExistsCall}
    /\ dir' \in {NoDir, leftByEarlierRun(CurrentNamespace)}
    /\ archive' = NoArchive
    /\ scriptLog' = <<>>
    /\ succeeded' = {}
    /\ warned' = {}
    /\ auxIdx' = 1
    /\ pc' = "processNamespace"
    /\ UNCHANGED <<authVars, concVars, schedVars, args, retErr, stdout, resVars,
                   cpURL, nsIdx, invoked, partialWrites, wlVars>>

\* The lines processNamespace and createArchive write to script.log, by the
\* place that writes them; the lines of the single steps are left out.
ScriptLogHeader == <<"=== Log Collection Started">>
ScriptLogPodLogs == <<"=== Collecting Pod Logs ===">>
ScriptLogAdditional == <<"=== Collecting Additional Information ===">>
ScriptLogBeforeWalk == <<"=== Creating Archive ===", "Creating tar archive...">>
ScriptLogAfterWalk ==
    <<"Archive created", "Cleaning up temporary directory...",
      "=== Log Collection Completed", "Logs and info archived">>

\* processNamespace: os.MkdirAll(logDir), os.Create of script.log and the
\* header written to it.
ProcessNamespaceOpen ==
    /\ pc = "processNamespace"
    /\ \E o \in {"mkdirFail", "createFail", "ok"} :
          CASE o = "mkdirFail" ->
                  endIteration(CurrentNamespace, "failed", <<"Error processing namespace">>,
                               IF dir.exists THEN {"dir"} ELSE {})
            [] o = "createFail" ->
                  endIteration(CurrentNamespace, "failed", <<"Error processing namespace">>,
                               {"dir"})
            [] OTHER ->
                  /\ dir' = [dir EXCEPT !.exists = TRUE,
                                        !.files = (ScriptLog :> "fresh") @@ @]
                  /\ succeeded' = {ScriptLog}
                  /\ scriptLog' = ScriptLogHeader
                  /\ status' = [status EXCEPT
                                   ![CurrentNamespace].artifacts = @ \cup {"dir"}]
                  /\ pc' = "collectPodLogs"
                  /\ UNCHANGED <<stdout, nsIdx, warned, auxIdx, archive>>
    /\ UNCHANGED <<authVars, concVars, schedVars, args, calls, retErr, resVars,
                   cpURL, invoked, partialWrites, wlVars>>

\* What the cluster and the file system answer for one pod of collectPodLogs:
\* whether getPodContainers succeeds, whether the pod has the init container,
\* and how collectContainerLogs ends for each container.
LogOutcomes == {"fetchFail"} \cup WriteOutcomes
PodOutcomes ==
    {[get |-> FALSE, init |-> FALSE, main |-> "none", setup |-> "none"]} \cup
    {[get |-> TRUE, init |-> FALSE, main |-> m, setup |-> "none"] : m \in LogOutcomes} \cup
    [get : {TRUE}, init : {TRUE}, main : LogOutcomes, setup : LogOutcomes]

\* collectContainerLogs and the branch of collectPodLogs on its result.
collectContainerLogs(acc, logFile, outcome) ==
    [files |-> IF outcome = "fetchFail" THEN acc.files
               ELSE writeFile(acc.files, logFile, outcome),
     succeeded |-> IF outcome = "ok" THEN acc.succeeded \cup {logFile} ELSE acc.succeeded,
     warned |-> IF outcome = "ok" THEN acc.warned ELSE acc.warned \cup {logFile},
     partial |-> IF outcome = "writeFail" THEN acc.partial + 1 ELSE acc.partial]

\* The loop of collectPodLogs over the pods.
RECURSIVE podLoop(_, _, _)
podLoop(acc, po, i) ==
    IF i > Len(po) THEN acc
    ELSE IF ~po[i].get
         THEN podLoop([acc EXCEPT !.warned = @ \cup {<<"logs", i>>}], po, i + 1)
         ELSE LET regular == collectContainerLogs(acc, LogFile(i, "main", FALSE), po[i].main)
                  init == IF po[i].init
                          THEN collectContainerLogs(regular, LogFile(i, "setup", TRUE),
                                                    po[i].setup)
                          ELSE regular
              IN podLoop(init, po, i + 1)

\* processNamespace: collectPodLogs and the warning on its error.
CollectPodLogs ==
    /\ pc = "collectPodLogs"
    /\ invoked' = [invoked EXCEPT ![CurrentNamespace] = Append(@, "Pod logs")]
    /\ \E mkdirOk \in BOOLEAN, listOk \in BOOLEAN, n \in 0..MaxPods :
          \E po \in [1..n -> PodOutcomes] :
             LET acc == podLoop([files |-> dir.files, succeeded |-> succeeded,
                                 warned |-> warned, partial |-> partialWrites], po, 1)
             IN CASE ~mkdirOk ->
                       /\ n = 0
                       /\ listOk
                       /\ warned' = warned \cup {<<"logs">>}
                       /\ UNCHANGED <<dir, succeeded, calls, partialWrites>>
                  [] mkdirOk /\ ~listOk ->
                       /\ n = 0
                       /\ dir' = [dir EXCEPT !.logs = TRUE]
                       /\ calls' = calls \cup {Call("list", "pods")}
                       /\ warned' = warned \cup {<<"logs">>}
                       /\ UNCHANGED <<succeeded, partialWrites>>
                  [] OTHER ->
                       /\ acc.partial <= MaxPartialWrites
                       /\ dir' = [dir EXCEPT !.logs = TRUE, !.files = acc.files]
                       /\ succeeded' = acc.succeeded
                       /\ warned' = acc.warned
                       /\ partialWrites' = acc.partial
                       /\ calls' = calls \cup {Call("list", "pods")}
                             \cup {Call("get", "pods") : i \in 1..n}
                             \cup {Call("get", "pods/log") : i \in {j \in 1..n : po[j].get}}
    /\ scriptLog' = scriptLog \o ScriptLogPodLogs \o ScriptLogAdditional
    /\ pc' = "collectAdditionalInfo"
    /\ UNCHANGED <<authVars, concVars, schedVars, args, retErr, stdout, resVars,
                   cpURL, nsIdx, status, auxIdx, archive, wlVars>>

\* The results action.cmd() can have: err == nil or not.
cmdSucceeds(action) ==
    IF action.resource = "" THEN BOOLEAN
    ELSE {getResourceAsYAML(action.resource, out, marshalOk).err = NoError :
             out \in [1..Len(gvrCandidates[action.resource]) -> ApiOutcomes],
             marshalOk \in BOOLEAN}

\* The two "continue" of the action loops and the end of its body: the loop
\* goes on with the next action whether this one failed or not.
afterActionReturnOnFailure(i, n, failed) == IF failed THEN n + 1 ELSE i + 1

afterAction(i, n, failed) == i + 1

\* collectRunaiInfo, collectBackendInfo: one iteration of the action loop.
CollectAdditionalInfoStep ==
    LET actions == collectAdditionalInfo(CurrentNamespace)
    IN /\ pc = "collectAdditionalInfo"
       /\ auxIdx <= Len(actions)
       /\ LET action == actions[auxIdx]
          IN /\ invoked' = [invoked EXCEPT ![CurrentNamespace] = Append(@, action.name)]
             /\ calls' = calls \cup {action.call}
             /\ \E ok \in cmdSucceeds(action), w \in WriteOutcomes :
                   /\ IF ~ok
                      THEN /\ w = "ok"
                           /\ UNCHANGED <<dir, partialWrites>>
                      ELSE /\ dir' = [dir EXCEPT !.files = writeFile(@, action.filename, w)]
                           /\ partialWrites' = partialWrites + (IF w = "writeFail" THEN 1 ELSE 0)
                           /\ partialWrites' <= MaxPartialWrites
                   /\ succeeded' = IF ok /\ w = "ok" THEN succeeded \cup {action.filename}
                                   ELSE succeeded
                   /\ warned' = IF ok /\ w = "ok" THEN warned
                                ELSE warned \cup {action.filename}
                   /\ auxIdx' = afterAction(auxIdx, Len(actions), ~(ok /\ w = "ok"))
       /\ pc' = pc
       /\ UNCHANGED <<authVars, concVars, schedVars, args, retErr, stdout,
                      resVars, cpURL, nsIdx, status, archive, scriptLog,
                      wlVars>>

\* The files of logDir in the order filepath.Walk reaches them.
walked(ns, files) == SelectSeq(walkOrder(ns), LAMBDA f : f \in DOMAIN files)

\* The directory headers the walk writes: logDir itself and logs/.
walkedDirs(d) == {"logDir"} \cup (IF d.logs THEN {"logs"} ELSE {})

\* processNamespace: createArchive once collectAdditionalInfo has returned.
\* A failing walk leaves a truncated archive file behind; the deferred Close
\* calls have their errors dropped, so a failing Close leaves an archive that
\* is not sealed although createArchive returns nil.  The walk copies
\* script.log as it is then; createArchive writes its closing lines to
\* script.log after the walk.
CreateArchive ==
    LET ns == CurrentNamespace
        order == walked(ns, dir.files)
    IN /\ pc = "collectAdditionalInfo"
       /\ auxIdx > Len(collectAdditionalInfo(ns))
       /\ \E o \in {"createFail", "walkFail", "closeFail", "ok"} :
             CASE o = "createFail" ->
                     endIteration(ns, "failed", <<"Error processing namespace">>, {"dir"})
               [] o = "walkFail" ->
                     endIteration(ns, "failed", <<"Error processing namespace">>,
                                  {"dir", "archive"})
               [] OTHER ->
                     /\ archive' = [exists |-> TRUE, sealed |-> o = "ok",
                                    dirs |-> walkedDirs(dir),
                                    entries |-> [f \in {order[j] : j \in 1..Len(order)} |->
                                                    dir.files[f]],
                                    scriptLog |-> scriptLog \o ScriptLogBeforeWalk]
                     /\ scriptLog' = scriptLog \o ScriptLogBeforeWalk \o ScriptLogAfterWalk
                     /\ pc' = "RemoveAll"
                     /\ UNCHANGED <<stdout, status, nsIdx, dir, succeeded,
                                    warned, auxIdx>>
       /\ UNCHANGED <<authVars, concVars, schedVars, args, calls, retErr,
                      resVars, cpURL, invoked, partialWrites, wlVars>>

\* processNamespace: os.RemoveAll(logDir), its error only printed; Run then
\* reports the namespace as completed.
RemoveLogDir ==
    /\ pc = "RemoveAll"
    /\ \E removed \in BOOLEAN :
          endIteration(CurrentNamespace, "completed",
                       (IF removed THEN <<>> ELSE <<"Failed to clean up temp directory">>)
                          \o <<"Completed processing namespace">>,
                       (IF removed THEN {} ELSE {"dir"}) \cup {"archive"}
                          \cup (IF archive.sealed THEN {"sealed"} ELSE {}))
    /\ UNCHANGED <<authVars, concVars, schedVars, args, calls, retErr, resVars,
                   cpURL, invoked, partialWrites, wlVars>>

\* The state after construction: New has returned a Collector built from the
\* kubeconfig of a workstation, and the caller is about to call Run.
RunConstructed(spent) ==
    /\ env = WorkstationEnv
    /\ pc = "Run"
    /\ attempted = <<"inCluster", "kubeconfig">>
    /\ restConfig = tryKubeconfigAuth(WorkstationEnv).config
    /\ configErr = Nil
    /\ collector = NewResult(restConfig, Nil, TRUE, TRUE).collector
    /\ newErr = Nil
    /\ args = NoArgs
    /\ calls = {}
    /\ retErr = Nil
    /\ stdout = <<>>
    /\ resolved = NotResolved
    /\ cpURL = <<"unknown">>
    /\ nsIdx = 1
    /\ status = [n \in {"runai-backend", "runai"} |->
                    [get |-> "pending", result |-> "pending", artifacts |-> {}]]
    /\ dir = NoDir
    /\ succeeded = {}
    /\ invoked = [n \in {"runai-backend", "runai"} |-> <<>>]
    /\ warned = {}
    /\ auxIdx = 1
    /\ archive = NoArchive
    /\ scriptLog = <<>>
    /\ partialWrites = spent
    /\ canonicalType = ""
    /\ namespace = ""
    /\ outputFiles = <<>>
    /\ cwdFiles = <<>>
    /\ wlSteps = <<>>
    /\ wlArchive = NoArchive
    /\ tempDir = NoTempDir
    /\ schedIdx = 1
    /\ dumped = <<>>
    /\ schedArchive = NoArchive
    /\ cwd = InOriginalDir
    /\ runs = NotStarted
    /\ sharedDir = <<>>

InitRun == RunConstructed(0)

NextRun ==
    \/ RunStart
    \/ RunSkipNamespace
    \/ RunEnterNamespace
    \/ ProcessNamespaceOpen
    \/ CollectPodLogs
    \/ CollectAdditionalInfoStep
    \/ CreateArchive
    \/ RemoveLogDir
    \/ RunReturn

SpecRun == InitRun /\ [][NextRun]_vars

(***************************************************************************)
(* The workload bundle: CollectWorkloadInfo.                               *)
(*                                                                         *)
(* cwdFiles are the files the run has written to the working directory,    *)
(* outputFiles is the local of that name, wlSteps the collection steps     *)
(* taken so far with how each ended.                                       *)
(***************************************************************************)

\* typeSafe: every "/" of the workload type replaced by "_".
typeSafe(workloadType) ==
    IF workloadType = "training/workloads" THEN "training_workloads" ELSE workloadType

\* The file names of the workload bundle: "%s_%s_<suffix>" of the workload
\* name and typeSafe, and "%s_%s_pod_logs_%s.log" with the container.
workloadFile(suffix) == <<args.name, typeSafe(args.workloadType), suffix>>
podLogFile(container) ==
    <<args.name, typeSafe(args.workloadType), "pod_logs", container, ".log">>
PodGroupFile == workloadFile("podgroup.yaml")

\* One collection step of CollectWorkloadInfo and the branch on its result:
\* the file is appended to outputFiles when the step returned no error, a
\* failure line is printed otherwise, and the next step follows either way.
collectStep(step, file, outcome, next) ==
    /\ wlSteps' = Append(wlSteps, [step |-> step, outcome |-> outcome,
                                   namespace |-> namespace])
    /\ cwdFiles' = writeFile(cwdFiles, file, outcome)
    /\ outputFiles' = IF outcome = "ok" THEN Append(outputFiles, file) ELSE outputFiles
    /\ stdout' = IF outcome = "ok" THEN stdout
                 ELSE Append(stdout, Printed("Failed to get", step))
    /\ pc' = next

\* How a step that fetches with getResourceAsYAML and writes the text ends.
resourceStepOutcomes(resource) ==
    {IF getResourceAsYAML(resource, out, marshalOk).err # NoError THEN "fetchFail" ELSE w :
        out \in [1..Len(gvrCandidates[resource]) -> ApiOutcomes],
        marshalOk \in BOOLEAN, w \in WriteOutcomes}

\* getWorkloadYAML.
WlWorkloadYAML ==
    /\ pc = "getWorkloadYAML"
    /\ calls' = calls \cup {Call("get", canonicalType)}
    /\ \E outcome \in (IF canonicalType \in ResourceKeys
                       THEN resourceStepOutcomes(canonicalType) ELSE {"fetchFail"}) :
          collectStep("Workload YAML", workloadFile("workload.yaml"), outcome,
                      "getRunAIJobYAML")
    /\ UNCHANGED <<authVars, concVars, schedVars, args, retErr, resVars,
                   runVars, canonicalType, namespace, wlArchive>>

\* getRunAIJobYAML.
WlRunAIJobYAML ==
    /\ pc = "getRunAIJobYAML"
    /\ calls' = calls \cup {Call("get", "runaijobs")}
    /\ \E outcome \in resourceStepOutcomes("rj") :
          collectStep("RunAIJob YAML", workloadFile("runaijob.yaml"), outcome, "getPodYAML")
    /\ UNCHANGED <<authVars, concVars, schedVars, args, retErr, resVars,
                   runVars, canonicalType, namespace, wlArchive>>

\* getPodYAML: the list is written also when it has no items.
WlPodYAML ==
    /\ pc = "getPodYAML"
    /\ calls' = calls \cup {Call("list", "pods")}
    /\ \E listOk \in BOOLEAN, marshalOk \in BOOLEAN, w \in WriteOutcomes :
          collectStep("Pod YAML", workloadFile("pod.yaml"),
                      IF listOk /\ marshalOk THEN w ELSE "fetchFail", "getPodGroupYAML")
    /\ UNCHANGED <<authVars, concVars, schedVars, args, retErr, resVars,
                   runVars, canonicalType, namespace, wlArchive>>

\* getPodGroupYAML: how it ends for what getPodGroupsWithLabels returned.
getPodGroupYAML(found, marshalOk, w) ==
    CASE found.err # NoError -> "searchFailed"
      [] found.list.items = 0 -> "notFound"
      [] objectToYAML(found.list, marshalOk).err # NoError -> "fetchFail"
      [] OTHER -> w

\* The step CollectWorkloadInfo takes after getPodGroupYAML.
afterPodGroupReturnOnError(outcome) == IF outcome = "ok" THEN "getPodLogs" ELSE "done"

afterPodGroup(outcome) == "getPodLogs"

WlPodGroupYAML ==
    /\ pc = "getPodGroupYAML"
    /\ calls' = calls \cup {Call("list", "podgroups")}
    /\ \E out \in [1..Len(podGroupGVRs) -> ApiOutcomes], n \in 0..MaxItems,
          marshalOk \in BOOLEAN, w \in WriteOutcomes :
          LET outcome == getPodGroupYAML(getPodGroupsWithLabels(out, n), marshalOk, w)
          IN collectStep("PodGroup YAML", PodGroupFile, outcome, afterPodGroup(outcome))
    /\ UNCHANGED <<authVars, concVars, schedVars, args, retErr, resVars,
                   runVars, canonicalType, namespace, wlArchive>>

\* getPodLogs: the logs of one container; the file is listed only when the
\* logs were fetched and written.
containerLogs(acc, container, outcome) ==
    [files |-> writeFile(acc.files, podLogFile(container), outcome),
     listed |-> IF outcome = "ok" THEN Append(acc.listed, podLogFile(container))
                ELSE acc.listed]

\* The loop of getPodLogs over the pods: the init containers come first in
\* allContainers.
RECURSIVE workloadPodLoop(_, _, _)
workloadPodLoop(acc, po, i) ==
    IF i > Len(po) THEN acc
    ELSE IF ~po[i].get THEN workloadPodLoop(acc, po, i + 1)
         ELSE LET init == IF po[i].init THEN containerLogs(acc, "setup", po[i].setup)
                          ELSE acc
              IN workloadPodLoop(containerLogs(init, "main", po[i].main), po, i + 1)

\* The step after getPodLogs: getKSVCYAML for inference workloads only.
\* The test before getKSVCYAML taking both inference kinds.
afterPodLogsAnyInferenceKind ==
    IF canonicalType \in {"inferenceworkloads", "distributedinferenceworkloads"}
    THEN "getKSVCYAML"
    ELSE "createWorkloadArchive"

afterPodLogs ==
    IF canonicalType = "inferenceworkloads" THEN "getKSVCYAML" ELSE "createWorkloadArchive"

\* getPodLogs and the branch of CollectWorkloadInfo on its result.
\* Largest number of pods of a distributed workload, which runs several
\* workers; the other kinds have up to MaxPods pods.
MaxWorkers == 2

matchedPodBound(kind) ==
    IF kind \in {"distributedworkloads", "distributedinferenceworkloads"}
    THEN MaxWorkers
    ELSE MaxPods

WlPodLogs ==
    /\ pc = "getPodLogs"
    /\ \E listOk \in BOOLEAN, n \in 0..matchedPodBound(canonicalType) :
          \E po \in [1..n -> PodOutcomes] :
             LET acc == workloadPodLoop([files |-> cwdFiles, listed |-> <<>>], po, 1)
             IN /\ ~listOk => n = 0
                /\ wlSteps' = Append(wlSteps, [step |-> "Pod logs",
                                               outcome |-> IF listOk THEN "ok"
                                                           ELSE "fetchFail",
                                               namespace |-> namespace])
                /\ cwdFiles' = acc.files
                /\ outputFiles' = outputFiles \o acc.listed
                /\ stdout' = IF listOk THEN stdout
                             ELSE Append(stdout, Printed("Failed to get", "Pod logs"))
                /\ calls' = calls \cup {Call("list", "pods")}
                      \cup {Call("get", "pods") : i \in 1..n}
                      \cup {Call("get", "pods/log") : i \in {j \in 1..n : po[j].get}}
    /\ pc' = afterPodLogs
    /\ UNCHANGED <<authVars, concVars, schedVars, args, retErr, resVars,
                   runVars, canonicalType, namespace, wlArchive>>

\* getKSVCYAML.
WlKSVCYAML ==
    /\ pc = "getKSVCYAML"
    /\ calls' = calls \cup {Call("get", "services")}
    /\ \E outcome \in resourceStepOutcomes("ksvc") :
          collectStep("KSVC YAML", workloadFile("ksvc.yaml"), outcome,
                      "createWorkloadArchive")
    /\ UNCHANGED <<authVars, concVars, schedVars, args, retErr, resVars,
                   runVars, canonicalType, namespace, wlArchive>>

\* createWorkloadArchive making an archive of whatever list it is given.
archiveOutcomeOfAnyList(files, o) == o

\* The first statement of createWorkloadArchive: 'no files to archive' for an
\* empty list, before anything is created; o is how it ends otherwise.
archiveOutcome(files, o) == IF files = <<>> THEN "noFiles" ELSE o

\* createWorkloadArchive and the return of CollectWorkloadInfo on its error:
\* no archive for an empty list; addFileToTar can fail at any file, which
\* leaves a truncated archive; the errors of the deferred Close calls are
\* dropped, so nil is returned for an archive that was not sealed.
WlCreateArchive ==
    /\ pc = "createWorkloadArchive"
    /\ \E o \in {"createFail", "addFail", "closeFail", "ok"} :
          LET outcome == archiveOutcome(outputFiles, o)
          IN /\ wlSteps' = Append(wlSteps, [step |-> "Archive", outcome |-> outcome])
             /\ CASE outcome \in {"noFiles", "createFail"} ->
                        /\ retErr' = "failed to create archive"
                        /\ pc' = "done"
                        /\ UNCHANGED wlArchive
                  [] outcome = "addFail" ->
                        /\ \E k \in 0..(Len(outputFiles) - 1) :
                              wlArchive' = [exists |-> TRUE, sealed |-> FALSE, dirs |-> {},
                                            entries |-> [f \in {outputFiles[j] : j \in 1..k}
                                                            |-> cwdFiles[f]],
                                            scriptLog |-> <<>>]
                        /\ retErr' = "failed to create archive"
                        /\ pc' = "done"
                  [] OTHER ->
                        /\ wlArchive' = [exists |-> TRUE, sealed |-> outcome = "ok",
                                         dirs |-> {},
                                         entries |-> [f \in {outputFiles[j] :
                                                               j \in 1..Len(outputFiles)}
                                                         |-> cwdFiles[f]],
                                         scriptLog |-> <<>>]
                        /\ pc' = "cleanup"
                        /\ UNCHANGED retErr
    /\ UNCHANGED <<authVars, concVars, schedVars, args, calls, stdout, resVars,
                   runVars, canonicalType, namespace, outputFiles, cwdFiles>>

\* The cleanup loop: os.Remove of each listed file, its error ignored; then
\* nil is returned.
WlCleanup ==
    /\ pc = "cleanup"
    /\ \E kept \in SUBSET {outputFiles[j] : j \in 1..Len(outputFiles)} :
          cwdFiles' = [f \in (DOMAIN cwdFiles \ {outputFiles[j] : j \in 1..Len(outputFiles)})
                              \cup kept |-> cwdFiles[f]]
    /\ stdout' = Append(stdout, Printed("Workload info collection completed!", ""))
    /\ retErr' = Nil
    /\ pc' = "done"
    /\ UNCHANGED <<authVars, concVars, schedVars, args, calls, resVars, runVars,
                   canonicalType, namespace, outputFiles, wlSteps, wlArchive>>

\* The workloads collected: a type for each of the six kinds (five aliases
\* and a kind name), and the unrecognized types.
CollectedWorkloadArgs ==
    {a \in WorkloadArgs :
        a.workloadType \in {"tw", "iw", "infw", "distributedworkloads", "dinfw", "ew"}
                               \cup UnrecognizedTypes}

\* The state after construction, the caller about to call CollectWorkloadInfo
\* with its three arguments.
InitWl ==
    /\ env = WorkstationEnv
    /\ pc = "CollectWorkloadInfo"
    /\ attempted = <<"inCluster", "kubeconfig">>
    /\ restConfig = tryKubeconfigAuth(WorkstationEnv).config
    /\ configErr = Nil
    /\ collector = NewResult(restConfig, Nil, TRUE, TRUE).collector
    /\ newErr = Nil
    /\ args \in CollectedWorkloadArgs
    /\ calls = {}
    /\ retErr = Nil
    /\ stdout = <<>>
    /\ resolved = NotResolved
    /\ cpURL = <<"unknown">>
    /\ nsIdx = 1
    /\ status = [n \in {"runai-backend", "runai"} |->
                    [get |-> "pending", result |-> "pending", artifacts |-> {}]]
    /\ dir = NoDir
    /\ succeeded = {}
    /\ invoked = [n \in {"runai-backend", "runai"} |-> <<>>]
    /\ warned = {}
    /\ auxIdx = 1
    /\ archive = NoArchive
    /\ scriptLog = <<>>
    /\ partialWrites = 0
    /\ canonicalType = ""
    /\ namespace = ""
    /\ outputFiles = <<>>
    /\ cwdFiles = <<>>
    /\ wlSteps = <<>>
    /\ wlArchive = NoArchive
    /\ tempDir = NoTempDir
    /\ schedIdx = 1
    /\ dumped = <<>>
    /\ schedArchive = NoArchive
    /\ cwd = InOriginalDir
    /\ runs = NotStarted
    /\ sharedDir = <<>>

NextWl ==
    \/ CollectWorkloadInfoStart
    \/ WlWorkloadYAML
    \/ WlRunAIJobYAML
    \/ WlPodYAML
    \/ WlPodGroupYAML
    \/ WlPodLogs
    \/ WlKSVCYAML
    \/ WlCreateArchive
    \/ WlCleanup

SpecWl == InitWl /\ [][NextWl]_vars

(***************************************************************************)
(* CollectSchedulerInfo: the scheduler dump.                               *)
(*                                                                         *)
(* A file is a sequence of lines and a line a sequence of tokens: the      *)
(* blank and the tab, the '#', and words that hold neither.                *)
(***************************************************************************)

Whitespace == {" ", "\t"}

\* strings.TrimSpace on one line.
RECURSIVE TrimLeft(_)
TrimLeft(line) ==
    IF line # <<>> /\ Head(line) \in Whitespace THEN TrimLeft(Tail(line)) ELSE line

RECURSIVE TrimRight(_)
TrimRight(line) ==
    IF line # <<>> /\ line[Len(line)] \in Whitespace
    THEN TrimRight(SubSeq(line, 1, Len(line) - 1))
    ELSE line

TrimSpace(line) == TrimRight(TrimLeft(line))

\* strings.HasPrefix(line, tok) for a one-character tok.
HasPrefix(line, tok) == line # <<>> /\ Head(line) = tok

\* strings.TrimSpace on the content of a file: the newline is white space
\* too, so blank lines at either end go, and the first and last lines left
\* are trimmed at their outer ends.
RECURSIVE dropBlankHead(_)
dropBlankHead(text) ==
    IF text # <<>> /\ TrimSpace(Head(text)) = <<>> THEN dropBlankHead(Tail(text)) ELSE text

RECURSIVE dropBlankTail(_)
dropBlankTail(text) ==
    IF text # <<>> /\ TrimSpace(text[Len(text)]) = <<>>
    THEN dropBlankTail(SubSeq(text, 1, Len(text) - 1))
    ELSE text

TrimSpaceContent(text) ==
    LET t == dropBlankTail(dropBlankHead(text))
    IN [i \in 1..Len(t) |->
           CASE i = 1 /\ i = Len(t) -> TrimSpace(t[i])
             [] i = 1 -> TrimLeft(t[i])
             [] i = Len(t) -> TrimRight(t[i])
             [] OTHER -> t[i]]

\* strings.Split(content, "\n"): the empty content is one empty line.
SplitLines(text) == IF text = <<>> THEN << <<>> >> ELSE text

\* A file of the working directory: its lines, and whether it was written whole.
FileOf(text) == [text |-> text, whole |-> TRUE]
Truncated == [text |-> <<>>, whole |-> FALSE]

\* os.WriteFile(path, text): the file is written whole, or opening it fails
\* and nothing changes, or writing fails after the file was created or
\* truncated and before any byte was stored.
writeText(files, path, text, outcome) ==
    CASE outcome = "ok" -> (path :> FileOf(text)) @@ files
      [] outcome = "writeFail" -> (path :> Truncated) @@ files
      [] OTHER -> files

\* validateFileContent accepting a file of comments for meaningful content.
validateFileContentCountingComments(files, filename, readOk) ==
    IF ~readOk \/ filename \notin DOMAIN files
    THEN "cannot read file"
    ELSE LET lines == SplitLines(TrimSpaceContent(files[filename].text))
             meaningfulLines ==
                 Cardinality({i \in 1..Len(lines) : TrimSpace(lines[i]) # <<>>})
         IN IF meaningfulLines = 0 THEN "contains no meaningful content" ELSE Nil

validateFileContent(files, filename, readOk) ==
    IF ~readOk \/ filename \notin DOMAIN files
    THEN "cannot read file"
    ELSE LET lines == SplitLines(TrimSpaceContent(files[filename].text))
             meaningfulLines ==
                 Cardinality({i \in 1..Len(lines) :
                                 LET trimmed == TrimSpace(lines[i])
                                 IN trimmed # <<>> /\ ~HasPrefix(trimmed, "#")})
         IN IF meaningfulLines = 0 THEN "contains no meaningful content" ELSE Nil

\* Lines a file can hold, and the files of up to MaxLines of them.
MaxLines == 2
SampleLines ==
    { <<>>, <<" ">>, <<"\t", " ">>, <<"#">>, <<"#", " ", "note">>,
      <<" ", "#", "note">>, <<"NAME">>, <<"\t", "NAME", " ">>, <<"NAME", "#">> }
SampleTexts == UNION {[1..k -> SampleLines] : k \in 0..MaxLines}

ApplyValidateFileContent ==
    /\ pc = "pure"
    /\ \E text \in SampleTexts, readOk \in BOOLEAN :
          resolved' = [fn |-> "validateFileContent", text |-> text, readOk |-> readOk,
                       res |-> validateFileContent(("f" :> FileOf(text)), "f", readOk)]
    /\ UNCHANGED <<pc, authVars, concVars, schedVars, procVars, runVars,
                   wlVars>>

\* Largest number of instances of one scheduler kind.
MaxInstances == 1

\* The kinds CollectSchedulerInfo dumps, in order.
SchedulerResources ==
    << [resourceType |-> "projects", singular |-> "project"],
       [resourceType |-> "queues", singular |-> "queue"],
       [resourceType |-> "nodepools", singular |-> "nodepool"],
       [resourceType |-> "departments", singular |-> "department"] >>

listFileName(resourceType) == <<resourceType, "_list.txt">>
manifestFileName(singular, resourceName) == <<singular, "_", resourceName, ".yaml">>

\* The names of the instances a list call returns, and %d of their number.
ItemNames == <<"a", "b", "c", "d">>
Itoa(n) == <<"0", "1", "2", "3", "4">>[n + 1]

\* The placeholder written for a kind that could not be listed.
errorOutput(resourceType, lastErr) ==
    << <<"#", " ", resourceType, " resources">>,
       <<"#", " ", "Error retrieving ", resourceType, ": ", lastErr.kind>>,
       <<"#", " ", "This may be normal if ", resourceType,
         " are not configured in this cluster">> >>

HeaderLine == <<"NAME", "\t", "CREATED", "\t", "AGE">>

\* The list output with its rows left out.
listOutputWithoutRows(resourceType, resourceNames) ==
    << <<"#", " ", resourceType, " resources (found ", Itoa(Len(resourceNames)), ")">>,
       <<"#", " ", "Retrieved using native Kubernetes client-go">>,
       <<>> >>
    \o (IF resourceType = "queues"
        THEN << <<"#", " ", "Note: Queues are dedicated RunAI scheduling resources">>,
                <<"#", " ", "API: scheduling.run.ai/v2">>,
                <<>> >>
        ELSE <<>>)
    \o <<HeaderLine>>

\* The list output with its header left out.
listOutputWithoutHeader(resourceType, resourceNames) ==
    << <<"#", " ", resourceType, " resources (found ", Itoa(Len(resourceNames)), ")">>,
       <<"#", " ", "Retrieved using native Kubernetes client-go">>,
       <<>> >>
    \o [i \in 1..Len(resourceNames) |->
           <<resourceNames[i], "\t", "created", "\t", "age">>]

\* The list output: comment lines, the header, one row per instance.
listOutput(resourceType, resourceNames) ==
    << <<"#", " ", resourceType, " resources (found ", Itoa(Len(resourceNames)), ")">>,
       <<"#", " ", "Retrieved using native Kubernetes client-go">>,
       <<>> >>
    \o (IF resourceType = "queues"
        THEN << <<"#", " ", "Note: Queues are dedicated RunAI scheduling resources">>,
                <<"#", " ", "API: scheduling.run.ai/v2">>,
                <<>> >>
        ELSE <<>>)
    \o <<HeaderLine>>
    \o [i \in 1..Len(resourceNames) |->
           <<resourceNames[i], "\t", "created", "\t", "age">>]

manifestOutput(singular, resourceName) == << <<"kind: ", singular>>, <<"name: ", resourceName>> >>

\* What can happen to one instance in the manifest loop: no candidate gets
\* it, objectToYAML fails, or the manifest is written with one of the
\* outcomes of os.WriteFile.
ItemOutcomes == {"getFail", "yamlFail"} \cup WriteOutcomes

RECURSIVE extractManifests(_, _, _, _, _)
extractManifests(files, singular, resourceNames, items, i) ==
    IF i > Len(resourceNames)
    THEN files
    ELSE extractManifests(
             IF items[i] \in WriteOutcomes
             THEN writeText(files, manifestFileName(singular, resourceNames[i]),
                            manifestOutput(singular, resourceNames[i]), items[i])
             ELSE files,
             singular, resourceNames, items, i + 1)

\* The branch of dumpSchedulerResource for a kind no candidate lists, leaving
\* the list file out.
writeErrorFileSkipped(files, resourceType, lastErr, w) ==
    [files |-> files, err |-> Nil, listed |-> FALSE, n |-> 0]

\* The branch of dumpSchedulerResource for a kind no candidate lists.
writeErrorFile(files, resourceType, lastErr, w) ==
    [files |-> writeText(files, listFileName(resourceType),
                         errorOutput(resourceType, lastErr), w),
     err |-> IF w = "ok" THEN Nil ELSE "failed to write error file",
     listed |-> FALSE, n |-> 0]

\* dumpSchedulerResource(resourceType, singular) run in a directory holding
\* files: out are the answers of the list calls, n the number of instances,
\* w the outcome of writing the list file, items what happens to each
\* instance.
dumpSchedulerResource(files, resourceType, singular, out, n, w, items) ==
    IF resourceType \notin DOMAIN schedulerGvrCandidates
    THEN [files |-> files, err |-> "unknown scheduler resource type",
          listed |-> FALSE, n |-> 0]
    ELSE LET l == listSchedulerResource(resourceType, out, n)
             resourceNames == SubSeq(ItemNames, 1, n)
         IN IF l.list = NoObject
            THEN writeErrorFile(files, resourceType, l.err, w)
            ELSE LET withList == writeText(files, listFileName(resourceType),
                                           listOutput(resourceType, resourceNames), w)
                 IN IF w # "ok"
                    THEN [files |-> withList, err |-> "failed to write list",
                          listed |-> TRUE, n |-> n]
                    ELSE [files |-> extractManifests(withList, singular,
                                                     resourceNames, items, 1),
                          err |-> Nil, listed |-> TRUE, n |-> n]

\* The files of a directory that were not written whole.
Partial(files) == {f \in DOMAIN files : ~files[f].whole}

SchedMkdir ==
    /\ pc = "scheduler_mkdir"
    /\ \E o \in {"mkdirFail", "getwdFail", "chdirFail", "ok"} :
          /\ tempDir' = IF o = "mkdirFail" THEN tempDir ELSE [tempDir EXCEPT !.exists = TRUE]
          /\ retErr' = CASE o = "mkdirFail" -> "failed to create temp directory"
                         [] o = "getwdFail" -> "failed to get current directory"
                         [] o = "chdirFail" -> "failed to change to temp directory"
                         [] OTHER -> retErr
          /\ cwd' = IF o = "ok" THEN [cwd EXCEPT !.dir = "tempDir", !.entered = TRUE]
                    ELSE cwd
          /\ pc' = IF o = "ok" THEN "scheduler_dump" ELSE "done"
    /\ UNCHANGED <<authVars, concVars, args, calls, stdout, resVars, runVars,
                   wlVars, schedIdx, dumped, schedArchive>>

\* The end of an iteration of the loop over the kinds: the error of
\* dumpSchedulerResource and the error of validateFileContent are printed
\* and the loop goes on.
\* The loop trying a kind again after a warning.
afterDumpRetrying(i, n, warnedOf) == IF warnedOf THEN i ELSE i + 1

\* The loop left at the first warning.
afterDumpStopOnWarning(i, n, warnedOf) == IF warnedOf THEN n + 1 ELSE i + 1

afterDump(i, n, warnedOf) == i + 1

\* One iteration of the loop over the kinds: dumpSchedulerResource, and
\* validateFileContent on the list file when it returned nil. The list file
\* was written a moment before, and os.ReadFile reads it. A list call that
\* fails returns no instances, and the manifest loop is not reached when
\* dumpSchedulerResource returns early, so n and items are drawn only where
\* the code looks at them.
SchedDumpResource ==
    /\ pc = "scheduler_dump"
    /\ schedIdx <= Len(SchedulerResources)
    /\ LET r == SchedulerResources[schedIdx]
       IN \E out \in [1..Len(schedulerGvrCandidates[r.resourceType]) -> ApiOutcomes],
             n \in 0..MaxInstances, w \in WriteOutcomes :
             \E items \in [1..n -> ItemOutcomes] :
                \E d \in {dumpSchedulerResource(tempDir.files, r.resourceType,
                                                r.singular, out, n, w, items)} :
                \E v \in {IF d.err = Nil
                         THEN validateFileContent(d.files, listFileName(r.resourceType),
                                                  TRUE)
                         ELSE Nil} :
                   /\ ~d.listed => n = 0
                   /\ d.err # Nil => \A i \in 1..n : items[i] = "ok"
                   /\ Cardinality(Partial(d.files)) - Cardinality(Partial(tempDir.files))
                         + partialWrites <= MaxPartialWrites
                   /\ partialWrites' = partialWrites + Cardinality(Partial(d.files))
                                          - Cardinality(Partial(tempDir.files))
                   /\ tempDir' = [tempDir EXCEPT !.files = d.files]
                   /\ dumped' = Append(dumped,
                                   [resourceType |-> r.resourceType, listed |-> d.listed,
                                    n |-> d.n, lastErr |-> listSchedulerResource(
                                                              r.resourceType, out, n).err,
                                    write |-> w, err |-> d.err, flagged |-> v])
                   /\ stdout' = stdout \o
                         (IF d.err # Nil
                          THEN <<Printed("Failed to dump", r.resourceType)>>
                          ELSE IF v # Nil
                               THEN <<Printed(v, r.resourceType)>>
                               ELSE <<>>)
                   /\ calls' = calls \cup {Call("list", r.resourceType)}
                                  \cup (IF d.err = Nil /\ d.n > 0
                                        THEN {Call("get", r.resourceType)}
                                        ELSE {})
                   /\ schedIdx' = afterDump(schedIdx, Len(SchedulerResources),
                                            d.err # Nil \/ v # Nil)
    /\ UNCHANGED <<pc, authVars, concVars, args, retErr, resVars, cpURL, nsIdx,
                   status, dir, succeeded, invoked, warned, auxIdx, archive,
                   scriptLog, wlVars, schedArchive, cwd>>

\* The loop followed by tar without the change back to the original
\* directory.
chdirBackLeftOut(ok) == "tempDir"

\* os.Chdir(originalDir) after the loop: where the process is afterwards.
chdirBack(ok) == IF ok THEN "original" ELSE "tempDir"

\* The deferred os.Chdir(originalDir), run at every return after the temp
\* directory was entered; its error is dropped.
deferredChdir(dirNow, ok) == IF ok THEN "original" ELSE dirNow

\* After the loop: back to the original directory, and tar run through sh.
\* When either fails CollectSchedulerInfo returns, and the deferred change
\* of directory runs.
SchedCreateArchive ==
    /\ pc = "scheduler_dump"
    /\ schedIdx > Len(SchedulerResources)
    /\ \E o \in {"chdirFail", "tarFail", "tarFailLeavingFile", "ok"} :
          /\ retErr' = CASE o = "chdirFail" -> "failed to change back to original directory"
                         [] o \in {"tarFail", "tarFailLeavingFile"} -> "failed to create archive"
                         [] OTHER -> retErr
          /\ schedArchive' =
                CASE o = "ok" -> [NoArchive EXCEPT !.exists = TRUE, !.sealed = TRUE,
                                                   !.entries = tempDir.files]
                  [] o = "tarFailLeavingFile" -> [NoArchive EXCEPT !.exists = TRUE]
                  [] OTHER -> schedArchive
          /\ \E deferredOk \in BOOLEAN :
                cwd' = CASE o = "chdirFail" ->
                               [cwd EXCEPT !.dir = deferredChdir(chdirBack(FALSE),
                                                                 deferredOk)]
                         [] o = "ok" ->
                               [cwd EXCEPT !.dir = chdirBack(TRUE),
                                           !.tarRanIn = chdirBack(TRUE)]
                         [] OTHER ->
                               [cwd EXCEPT !.dir = deferredChdir(chdirBack(TRUE),
                                                                 deferredOk),
                                           !.tarRanIn = chdirBack(TRUE)]
          /\ pc' = IF o = "ok" THEN "scheduler_cleanup" ELSE "done"
    /\ UNCHANGED <<authVars, concVars, args, calls, stdout, resVars, runVars,
                   wlVars, tempDir, schedIdx, dumped>>

\* os.RemoveAll(tempDir), whose failure is a warning, and the return of nil,
\* at which the deferred change of directory runs.
SchedCleanup ==
    /\ pc = "scheduler_cleanup"
    /\ \E removed \in BOOLEAN :
          /\ tempDir' = IF removed THEN NoTempDir ELSE tempDir
          /\ stdout' = stdout \o
                (IF removed THEN <<>>
                 ELSE <<Printed("Failed to clean up temp directory", "scheduler")>>)
                \o <<Printed("Scheduler info collection completed!", "scheduler")>>
    /\ \E deferredOk \in BOOLEAN :
          cwd' = [cwd EXCEPT !.dir = deferredChdir(cwd.dir, deferredOk)]
    /\ retErr' = Nil
    /\ pc' = "done"
    /\ UNCHANGED <<authVars, concVars, args, calls, resVars, runVars, wlVars,
                   schedIdx, dumped, schedArchive>>

\* The state after construction, the caller about to call the entry point
\* at pc0 without arguments.
Constructed(pc0) ==
    /\ env = WorkstationEnv
    /\ pc = pc0
    /\ attempted = <<"inCluster", "kubeconfig">>
    /\ restConfig = tryKubeconfigAuth(WorkstationEnv).config
    /\ configErr = Nil
    /\ collector = NewResult(restConfig, Nil, TRUE, TRUE).collector
    /\ newErr = Nil
    /\ args = NoArgs
    /\ calls = {}
    /\ retErr = Nil
    /\ stdout = <<>>
    /\ resolved = NotResolved
    /\ cpURL = <<"unknown">>
    /\ nsIdx = 1
    /\ status = [n \in {"runai-backend", "runai"} |->
                    [get |-> "pending", result |-> "pending", artifacts |-> {}]]
    /\ dir = NoDir
    /\ succeeded = {}
    /\ invoked = [n \in {"runai-backend", "runai"} |-> <<>>]
    /\ warned = {}
    /\ auxIdx = 1
    /\ archive = NoArchive
    /\ scriptLog = <<>>
    /\ partialWrites = 0
    /\ canonicalType = ""
    /\ namespace = ""
    /\ outputFiles = <<>>
    /\ cwdFiles = <<>>
    /\ wlSteps = <<>>
    /\ wlArchive = NoArchive
    /\ tempDir = NoTempDir
    /\ schedIdx = 1
    /\ dumped = <<>>
    /\ schedArchive = NoArchive
    /\ cwd = InOriginalDir
    /\ runs = NotStarted
    /\ sharedDir = <<>>

InitSched == Constructed("CollectSchedulerInfo")

NextSched ==
    \/ CollectSchedulerInfoStart
    \/ SchedMkdir
    \/ SchedDumpResource
    \/ SchedCreateArchive
    \/ SchedCleanup

SpecSched == InitSched /\ [][NextSched]_vars

\* The scheduler dump, and validateFileContent applied to the sample files.
NextValidate ==
    \/ CollectSchedulerInfoStart
    \/ SchedMkdir
    \/ SchedDumpResource
    \/ SchedCreateArchive
    \/ SchedCleanup
    \/ ApplyValidateFileContent

SpecValidate == (InitSched \/ InitPure) /\ [][NextValidate]_vars

\* The manifest loop of dumpSchedulerResource applied to a list of
\* SampleInstances instances of projects, for every outcome of each.
SampleInstances == 2

ApplyExtractManifests ==
    /\ pc = "pure"
    /\ \E items \in [1..SampleInstances -> ItemOutcomes] :
          resolved' = [fn |-> "extractManifests", items |-> items,
                       res |-> extractManifests(<<>>, "project",
                                                SubSeq(ItemNames, 1, SampleInstances),
                                                items, 1)]
    /\ UNCHANGED <<pc, authVars, concVars, schedVars, procVars, runVars,
                   wlVars>>

\* The scheduler dump, and the manifest loop applied to the sample list.
NextDumpLoops ==
    \/ CollectSchedulerInfoStart
    \/ SchedMkdir
    \/ SchedDumpResource
    \/ SchedCreateArchive
    \/ SchedCleanup
    \/ ApplyExtractManifests

SpecDumpLoops == (InitSched \/ InitPure) /\ [][NextDumpLoops]_vars

(***************************************************************************)
(* RunTests: the environment tests, after the connectivity test.           *)
(***************************************************************************)

TestedNamespaces == <<"runai", "runai-backend">>

\* testRunAINamespaces: namespaceExists for each of the two namespaces, the
\* pods of those that exist counted, and the error when none exists.
TestRunAINamespaces ==
    /\ pc = "testRunAINamespaces"
    /\ \E o \in [1..Len(TestedNamespaces) -> ApiOutcomes] :
          LET foundNamespaces == {i \in 1..Len(TestedNamespaces) : namespaceExists(o[i])}
          IN /\ calls' = calls \cup {namespaceExistsCall}
                            \cup (IF foundNamespaces # {} THEN {Call("list", "pods")} ELSE {})
             /\ stdout' = stdout \o
                   [i \in 1..Len(TestedNamespaces) |->
                       Printed(IF i \in foundNamespaces THEN "EXISTS" ELSE "NOT FOUND",
                               TestedNamespaces[i])]
             /\ IF foundNamespaces = {}
                THEN pc' = "done" /\ retErr' = "no RunAI namespaces found"
                ELSE pc' = "displayRunAIInfo" /\ retErr' = retErr
    /\ UNCHANGED <<authVars, concVars, schedVars, args, resVars, runVars,
                   wlVars>>

\* displayRunAIInfo, whose error is a warning, and the return of RunTests.
\* extractClusterInfo returns no error, so the namespace test is the one
\* failure displayRunAIInfo reports.
DisplayRunAIInfo ==
    /\ pc = "displayRunAIInfo"
    /\ \E o \in ApiOutcomes :
          /\ calls' = calls \cup {namespaceExistsCall}
                \cup (IF namespaceExists(o)
                      THEN {Call("get", "runaiconfigs"), Call("get", "configmaps"),
                            Call("list", "secrets")}
                      ELSE {})
          /\ stdout' = stdout \o
                (IF namespaceExists(o) THEN <<>>
                 ELSE <<Printed("Could not retrieve RunAI information", "")>>)
                \o <<Printed("All tests passed!", "")>>
    /\ retErr' = Nil
    /\ pc' = "done"
    /\ UNCHANGED <<authVars, concVars, schedVars, args, resVars, runVars,
                   wlVars>>

InitTests == Constructed("RunTests")

(***************************************************************************)
(* The four entry points of a constructed Collector.                       *)
(***************************************************************************)

InitEntryPoints == InitRun \/ InitWl \/ InitSched \/ InitTests

NextEntryPoints ==
    \/ RunStart
    \/ RunSkipNamespace
    \/ RunEnterNamespace
    \/ ProcessNamespaceOpen
    \/ CollectPodLogs
    \/ CollectAdditionalInfoStep
    \/ CreateArchive
    \/ RemoveLogDir
    \/ RunReturn
    \/ CollectWorkloadInfoStart
    \/ WlWorkloadYAML
    \/ WlRunAIJobYAML
    \/ WlPodYAML
    \/ WlPodGroupYAML
    \/ WlPodLogs
    \/ WlKSVCYAML
    \/ WlCreateArchive
    \/ WlCleanup
    \/ CollectSchedulerInfoStart
    \/ SchedMkdir
    \/ SchedDumpResource
    \/ SchedCreateArchive
    \/ SchedCleanup
    \/ RunTestsStart
    \/ TestRunAINamespaces
    \/ DisplayRunAIInfo

SpecEntryPoints == InitEntryPoints /\ [][NextEntryPoints]_vars

(***************************************************************************)
(* CollectWorkloadInfo called at the same time for several projects, each  *)
(* call on a Collector of its own in a goroutine of one process. The calls *)
(* share the directory of the process; a step of a call is one action.     *)
(* Only the failures of the cluster calls are drawn here.                  *)
(***************************************************************************)

ConcurrentType == "tw"
ConcurrentName == "workload-name"

\* The steps of a training workload, in order, and the files they write.
ConcurrentSteps ==
    << [step |-> "Workload YAML", suffix |-> "workload.yaml"],
       [step |-> "RunAIJob YAML", suffix |-> "runaijob.yaml"],
       [step |-> "Pod YAML", suffix |-> "pod.yaml"],
       [step |-> "PodGroup YAML", suffix |-> "podgroup.yaml"],
       [step |-> "Pod logs", suffix |-> "pod_logs_main.log"] >>

\* The name of a step's file: workload, type and suffix, and no project.
concurrentFile(suffix) == <<ConcurrentName, typeSafe(ConcurrentType), suffix>>

StepIndex(name) == CHOOSE i \in 1..Len(ConcurrentSteps) : ConcurrentSteps[i].step = name
afterStep(i) ==
    IF i < Len(ConcurrentSteps) THEN ConcurrentSteps[i + 1].step
    ELSE "createWorkloadArchive"

\* The namespace lookup of a call.
ConcResolveNamespace ==
    /\ pc = "concurrent"
    /\ \E p \in ConcurrentProjects :
          /\ runs[p].pc = "getNamespaceByLabel"
          /\ \E found \in BOOLEAN :
                runs' = [runs EXCEPT
                            ![p].namespace = IF found THEN <<"runai-", p>> ELSE @,
                            ![p].pc = IF found THEN ConcurrentSteps[1].step ELSE "done",
                            ![p].retErr = IF found THEN @
                                          ELSE "no namespace found for project"]
    /\ calls' = calls \cup {Call("list", "namespaces")}
    /\ UNCHANGED <<pc, authVars, schedVars, args, retErr, stdout, resVars, runVars,
                   wlVars, sharedDir>>

\* One collection step of a call: the fetch from the namespace of its
\* project and, when it succeeds, the file written and listed.
ConcCollect ==
    /\ pc = "concurrent"
    /\ \E p \in ConcurrentProjects :
          /\ runs[p].pc \in {ConcurrentSteps[i].step : i \in 1..Len(ConcurrentSteps)}
          /\ LET i == StepIndex(runs[p].pc)
                 file == concurrentFile(ConcurrentSteps[i].suffix)
             IN \E fetched \in BOOLEAN :
                   /\ sharedDir' = IF fetched THEN (file :> p) @@ sharedDir ELSE sharedDir
                   /\ runs' = [runs EXCEPT
                                  ![p].outputFiles = IF fetched THEN Append(@, file) ELSE @,
                                  ![p].pc = afterStep(i)]
    /\ calls' = calls \cup {Call("get", ConcurrentType)}
    /\ UNCHANGED <<pc, authVars, schedVars, args, retErr, stdout, resVars, runVars,
                   wlVars>>

\* createWorkloadArchive of a call: every listed file is opened and copied
\* into the archive; a file that is no longer there fails the archive.
ConcCreateArchive ==
    /\ pc = "concurrent"
    /\ \E p \in ConcurrentProjects :
          /\ runs[p].pc = "createWorkloadArchive"
          /\ LET files == runs[p].outputFiles
                 missing == {k \in 1..Len(files) : files[k] \notin DOMAIN sharedDir}
                 added == IF missing = {} THEN Len(files)
                          ELSE (CHOOSE k \in missing : \A j \in missing : k <= j) - 1
             IN runs' = [runs EXCEPT
                            ![p].archive =
                               IF files = <<>> THEN @
                               ELSE [exists |-> TRUE, sealed |-> missing = {},
                                     entries |-> [f \in {files[k] : k \in 1..added}
                                                     |-> sharedDir[f]]],
                            ![p].retErr = IF files = <<>> \/ missing # {}
                                          THEN "failed to create archive" ELSE @,
                            ![p].pc = IF files = <<>> \/ missing # {}
                                      THEN "done" ELSE "cleanup"]
    /\ UNCHANGED <<pc, authVars, schedVars, procVars, resVars, runVars, wlVars,
                   sharedDir>>

\* The cleanup of a call: os.Remove of every listed file, and the return.
ConcCleanup ==
    /\ pc = "concurrent"
    /\ \E p \in ConcurrentProjects :
          /\ runs[p].pc = "cleanup"
          /\ sharedDir' = [f \in DOMAIN sharedDir \
                                  {runs[p].outputFiles[k] : k \in 1..Len(runs[p].outputFiles)}
                              |-> sharedDir[f]]
          /\ runs' = [runs EXCEPT ![p].pc = "done"]
    /\ UNCHANGED <<pc, authVars, schedVars, procVars, resVars, runVars, wlVars>>

InitConcurrent == Constructed("concurrent")

NextConcurrent ==
    \/ ConcResolveNamespace
    \/ ConcCollect
    \/ ConcCreateArchive
    \/ ConcCleanup

SpecConcurrent == InitConcurrent /\ [][NextConcurrent]_vars

(***************************************************************************)
(* Run, CollectWorkloadInfo and CollectSchedulerInfo as passes that go on:  *)
(* each is sequential code of one goroutine and every cluster call and     *)
(* file operation returns, so a step that can be taken is taken.           *)
(***************************************************************************)

\* The passes are followed for an inference workload and for an unrecognized
\* type; in Run the writes that fail after the file was created have been
\* used up, so a write succeeds or fails before the file is there.
PassTypes == {"infw", "bogus"}

InitPasses ==
    \/ RunConstructed(MaxPartialWrites)
    \/ InitWl /\ args.workloadType \in PassTypes
    \/ InitSched

NextPasses ==
    \/ NextRun
    \/ NextWl
    \/ NextSched

\* The steps of CollectSchedulerInfo before and after the loop over the kinds.
SchedOutsideLoop ==
    \/ CollectSchedulerInfoStart
    \/ SchedMkdir
    \/ SchedCreateArchive
    \/ SchedCleanup

\* An iteration of the loop over the kinds reaching its end: the loop index
\* is set by afterDump, whatever dumpSchedulerResource and
\* validateFileContent returned.
SchedIterationEnds ==
    /\ pc = "scheduler_dump"
    /\ schedIdx <= Len(SchedulerResources)
    /\ schedIdx' \in {afterDump(schedIdx, Len(SchedulerResources), warnedOf) :
                        warnedOf \in BOOLEAN}

\* A step that can be taken is taken. For the loop over the kinds this is
\* stated on its index, the one thing every iteration changes.
SpecPasses ==
    /\ InitPasses
    /\ [][NextPasses]_vars
    /\ WF_vars(NextRun)
    /\ WF_vars(NextWl)
    /\ WF_vars(SchedOutsideLoop)
    /\ WF_schedIdx(SchedIterationEnds)

(***************************************************************************)
(* Properties of the resolver and of the alias table.                      *)
(***************************************************************************)

\* The coordinates a resolver application was given, in declared order.
CandidatesOf(r) ==
    CASE r.fn = "getResourceAsYAML" ->
            IF r.resource \in ResourceKeys THEN gvrCandidates[r.resource] ELSE <<>>
      [] r.fn = "getPodGroupsWithLabels" -> podGroupGVRs
      [] r.fn = "listSchedulerResource" -> schedulerGvrCandidates[r.resource]
      [] OTHER -> <<>>

IsResolverApplication(r) ==
    r.fn \in {"getResourceAsYAML", "getPodGroupsWithLabels", "listSchedulerResource"}

Succeeding(r) == {i \in 1..Len(CandidatesOf(r)) : r.out[i] = "ok"}

FirstSucceeding(r) == CHOOSE i \in Succeeding(r) : \A j \in Succeeding(r) : i <= j

NoDuplicates(q) == \A i, j \in 1..Len(q) : q[i] = q[j] => i = j

\* The object a resolver application handed back: the object under the YAML
\* text, or the list.
ReturnedObject(r) ==
    IF r.fn = "getResourceAsYAML" THEN r.res.text.of ELSE r.res.list

\* C3: the resolver probes the candidates in declared order, each at most once,
\* and stops at the first candidate whose get/list succeeds: the probes are
\* exactly the candidates up to that one, the object returned is the one read
\* from it and from no other (when exactly one candidate succeeds, that one,
\* whatever its position), and nothing is returned from a failed candidate.
C3_FirstSuccessWins ==
    IsResolverApplication(resolved) =>
        LET cands == CandidatesOf(resolved)
            res == resolved.res
        IN /\ NoDuplicates(res.probed)
           /\ \E k \in 0..Len(cands) : res.probed = SubSeq(cands, 1, k)
           /\ Succeeding(resolved) # {} =>
                 LET k == FirstSucceeding(resolved)
                 IN /\ res.probed = SubSeq(cands, 1, k)
                    /\ ReturnedObject(resolved).gvr \in {NoGVR, cands[k]}
                    /\ (resolved.fn = "getResourceAsYAML" /\ resolved.marshalOk) =>
                          /\ res.err = NoError
                          /\ res.text = [format |-> "yaml", of |-> Object(cands[k])]
                    /\ resolved.fn # "getResourceAsYAML" =>
                          res.list = ObjectList(cands[k], resolved.n)
                    /\ resolved.fn = "getPodGroupsWithLabels" => res.err = NoError
           /\ Succeeding(resolved) = {} => ReturnedObject(resolved) = NoObject

\* C3 witness: of two candidates only the second succeeds and its object is
\* returned.
C3_Witness ==
    /\ resolved.fn = "getResourceAsYAML"
    /\ resolved.resource = "trainingworkloads"
    /\ resolved.out = <<"NotFound", "ok">>
    /\ resolved.res.text.of = Object(GVR("run.ai", "v2alpha1", "trainingworkloads"))

\* C4: when every candidate fails, the error returned (reported, for
\* dumpSchedulerResource) is the failure of the last candidate in declared
\* order, whatever the earlier candidates failed with.
C4_LastErrorReturned ==
    (IsResolverApplication(resolved) /\ Len(CandidatesOf(resolved)) > 0
        /\ Succeeding(resolved) = {}) =>
        LET cands == CandidatesOf(resolved)
            n == Len(cands)
        IN resolved.res.err = ApiError(resolved.out[n], cands[n])

\* C4 witness: two candidates fail with different causes.
C4_Witness ==
    /\ resolved.fn = "getResourceAsYAML"
    /\ resolved.resource = "inferenceworkloads"
    /\ resolved.out = <<"Transport", "NotFound">>
    /\ resolved.res.err.kind = "NotFound"

\* The alias table as documented: alias, canonical kind.
DocumentedAliases ==
    {<<"tw", "trainingworkloads">>, <<"iw", "interactiveworkloads">>,
     <<"infw", "inferenceworkloads">>, <<"dw", "distributedworkloads">>,
     <<"dinfw", "distributedinferenceworkloads">>, <<"ew", "externalworkloads">>}

\* C9: getCanonicalWorkloadType maps each alias to its kind, each kind to
\* itself (normalising twice equals normalising once), and every other string
\* to the empty result.
C9_CanonicalTypes ==
    resolved.fn = "getCanonicalWorkloadType" =>
        /\ \A p \in DocumentedAliases :
              /\ resolved.input = p[1] => resolved.res = p[2]
              /\ resolved.input = p[2] => resolved.res = p[2]
        /\ (\A p \in DocumentedAliases : resolved.input \notin {p[1], p[2]}) =>
              resolved.res = ""
        /\ resolved.res # "" => resolved.again = resolved.res

\* C9 witness: the alias dw has been normalised.
C9_Witness ==
    /\ resolved.fn = "getCanonicalWorkloadType"
    /\ resolved.input = "dw"
    /\ resolved.res = "distributedworkloads"

(***************************************************************************)
(* Properties of the namespace bundle.                                     *)
(***************************************************************************)

\* The steps processNamespace is to take for a namespace, in order: the pod
\* logs, then the entries of the namespace's action table.
planOf(ns) ==
    LET actions == collectAdditionalInfo(ns)
    IN <<"Pod logs">> \o [i \in 1..Len(actions) |-> actions[i].name]

IsPrefix(s, t) == Len(s) <= Len(t) /\ \A i \in 1..Len(s) : s[i] = t[i]

ArchivingBegun == pc = "RemoveAll"

\* C5: in a namespace bundle every step of the plan (the pod logs, then each
\* entry of the action table) is invoked exactly once and in the plan's
\* order whatever the earlier steps returned: the steps invoked so far are
\* always a prefix of the plan, a step that failed is recorded as a warning
\* and followed by the next one, and the archive is written only when the
\* whole plan has been invoked.
C5_EveryStepOnceInOrder ==
    /\ \A i \in 1..Len(Namespaces) :
          /\ IsPrefix(invoked[Namespaces[i]], planOf(Namespaces[i]))
          /\ "archive" \in status[Namespaces[i]].artifacts
                => invoked[Namespaces[i]] = planOf(Namespaces[i])
          /\ i > nsIdx => invoked[Namespaces[i]] = <<>>
    /\ pc = "collectAdditionalInfo"
          => /\ Len(invoked[CurrentNamespace]) = auxIdx
             /\ \A j \in 1..(auxIdx - 1) :
                   LET f == collectAdditionalInfo(CurrentNamespace)[j].filename
                   IN (f \in succeeded) # (f \in warned)
    /\ (ArchivingBegun \/ archive.exists)
          => invoked[CurrentNamespace] = planOf(CurrentNamespace)

\* A bundle whose pod-log step and first table entry failed, and whose every
\* later step was still invoked before the archive was written.
C5_Witness ==
    /\ ArchivingBegun
    /\ CurrentNamespace = "runai"
    /\ archive.sealed
    /\ <<"logs">> \in warned
    /\ runaiActions[1].filename \in warned
    /\ runaiActions[6].filename \in succeeded
    /\ invoked["runai"] = planOf("runai")

\* C6 as stated: a sealed namespace archive holds exactly the files whose
\* step succeeded in this run.
C6_ArchiveHoldsSucceededFiles ==
    archive.sealed => DOMAIN archive.entries = succeeded

Range(q) == {q[i] : i \in 1..Len(q)}

\* C7: a namespace whose get answers NotFound is skipped: a skip message is
\* printed, no step is invoked for it and it gets no directory and no
\* archive; the namespaces after it are still examined, and Run returns nil.
C7_MissingNamespaceSkipped ==
    \A i \in 1..Len(Namespaces) :
       status[Namespaces[i]].get = "NotFound"
          => /\ status[Namespaces[i]].result = "skipped"
             /\ status[Namespaces[i]].artifacts = {}
             /\ invoked[Namespaces[i]] = <<>>
             /\ Printed("does not exist. Skipping.", Namespaces[i]) \in Range(stdout)
             /\ nsIdx > i
             /\ (nsIdx = i + 1 /\ pc = "Run_loop") => ~dir.exists /\ ~archive.exists
             /\ pc = "done"
                   => /\ retErr = Nil
                      /\ \A j \in (i + 1)..Len(Namespaces) :
                            status[Namespaces[j]].result # "pending"

\* Run has returned; the first namespace was missing and the second one was
\* collected and archived.
C7_Witness ==
    /\ pc = "done"
    /\ status["runai-backend"].get = "NotFound"
    /\ status["runai"].result = "completed"
    /\ "archive" \in status["runai"].artifacts

(***************************************************************************)
(* Properties of the workload bundle.                                      *)
(***************************************************************************)

\* C8: CollectWorkloadInfo called with a type that is neither an alias nor a
\* kind returns the input-validation error before any cluster call is made
\* and before any file or archive is created.
C8_InvalidTypeRejectedFirst ==
    args.workloadType \notin Aliases \cup CanonicalKinds
       => /\ pc \in {"CollectWorkloadInfo", "done"}
          /\ pc = "done" => retErr = "invalid workload type"
          /\ calls = {}
          /\ DOMAIN cwdFiles = {}
          /\ outputFiles = <<>>
          /\ wlSteps = <<>>
          /\ ~wlArchive.exists

\* CollectWorkloadInfo has returned for the type "pg", a key of the resource
\* table that is no workload type.
C8_Witness ==
    /\ pc = "done"
    /\ args.workloadType = "pg"
    /\ retErr = "invalid workload type"

\* The steps CollectWorkloadInfo is to take for the canonical type.
workloadPlan ==
    <<"Workload YAML", "RunAIJob YAML", "Pod YAML", "PodGroup YAML", "Pod logs">>
    \o (IF canonicalType = "inferenceworkloads" THEN <<"KSVC YAML">> ELSE <<>>)
    \o <<"Archive">>

StepsTaken == [i \in 1..Len(wlSteps) |-> wlSteps[i].step]
OutcomeOf(step) == {wlSteps[i].outcome : i \in {j \in 1..Len(wlSteps) : wlSteps[j].step = step}}

\* The pod-group lookup failed or found no pod group.
PodGroupMissing == OutcomeOf("PodGroup YAML") \cap {"searchFailed", "notFound"} # {}

\* C10, amended: for a valid workload whose pod-group lookup fails or finds
\* none, the failure is only printed and no pod-group file is written or
\* listed; every later step is still taken and createWorkloadArchive is
\* still called, with exactly the other files collected.  The archive is
\* refused only when that list is empty; when it is written without an
\* error it is sealed, holds exactly the listed files and no pod-group file,
\* and CollectWorkloadInfo returns nil.
C10_PodGroupAbsenceOnlyWarns ==
    PodGroupMissing
       => /\ Printed("Failed to get", "PodGroup YAML") \in Range(stdout)
          /\ PodGroupFile \notin DOMAIN cwdFiles
          /\ PodGroupFile \notin Range(outputFiles)
          /\ PodGroupFile \notin DOMAIN wlArchive.entries
          /\ IsPrefix(StepsTaken, workloadPlan)
          /\ pc = "done" => StepsTaken = workloadPlan
          /\ "noFiles" \in OutcomeOf("Archive") <=> (pc = "done" /\ outputFiles = <<>>)
          /\ wlArchive.sealed => DOMAIN wlArchive.entries = Range(outputFiles)
          /\ "ok" \in OutcomeOf("Archive")
                => /\ wlArchive.sealed
                   /\ pc = "done" => retErr = Nil

\* No pod group was found; the workload's YAML and its pod list were collected
\* and sealed in the archive, and nil was returned.
C10_Witness ==
    /\ pc = "done"
    /\ "notFound" \in OutcomeOf("PodGroup YAML")
    /\ retErr = Nil
    /\ wlArchive.sealed
    /\ DOMAIN wlArchive.entries = {workloadFile("workload.yaml"), workloadFile("pod.yaml")}

\* C10 as stated, for runs in which writing the archive file meets no error:
\* when the pod-group lookup fails or finds none, the run still seals an
\* archive that holds every other item collected.
C10_ArchiveSealedWithoutPodGroup ==
    (/\ PodGroupMissing
     /\ pc = "done"
     /\ OutcomeOf("Archive") \cap {"createFail", "addFail", "closeFail"} = {})
       => /\ wlArchive.sealed
          /\ DOMAIN wlArchive.entries = Range(outputFiles)
          /\ PodGroupFile \notin DOMAIN wlArchive.entries

(***************************************************************************)
(* Properties of the archives, the cleanup and the outcome of Run.         *)
(***************************************************************************)

\* C11 as stated, for script.log: the script.log stored in a sealed
\* namespace archive is everything the run wrote to script.log.
C11_ArchivedScriptLogIsWhatWasWritten ==
    archive.sealed => archive.scriptLog = scriptLog

Processed(ns) == status[ns].result \in {"completed", "failed"}

\* C12 as stated, for namespaces whose os.RemoveAll met no error: the working
\* directory is gone exactly when the archive was sealed, and when it was
\* not sealed the directory is left and the namespace is reported as failed.
C12_WorkingFilesRemovedIffSealed ==
    \A i \in 1..Len(Namespaces) :
       (/\ Processed(Namespaces[i])
        /\ Printed("Failed to clean up temp directory", Namespaces[i]) \notin Range(stdout))
          => /\ "sealed" \in status[Namespaces[i]].artifacts
                   => /\ "dir" \notin status[Namespaces[i]].artifacts
                      /\ status[Namespaces[i]].result = "completed"
             /\ "sealed" \notin status[Namespaces[i]].artifacts
                   => /\ status[Namespaces[i]].result = "failed"
                      /\ invoked[Namespaces[i]] # <<>>
                            => "dir" \in status[Namespaces[i]].artifacts

\* C13: when processNamespace fails for a namespace (working directory,
\* script log or archive creation), Run prints the failure for that
\* namespace and goes on: every later namespace is examined before Run
\* returns, and Run returns nil.
C13_NamespaceFailureIsLocal ==
    \A i \in 1..Len(Namespaces) :
       status[Namespaces[i]].result = "failed"
          => /\ Printed("Error processing namespace", Namespaces[i]) \in Range(stdout)
             /\ nsIdx > i
             /\ pc = "done"
                   => /\ retErr = Nil
                      /\ \A j \in (i + 1)..Len(Namespaces) :
                            status[Namespaces[j]].result # "pending"

\* Run has returned; processNamespace failed for the first namespace and the
\* second one was collected and archived.
C13_Witness ==
    /\ pc = "done"
    /\ status["runai-backend"].result = "failed"
    /\ status["runai"].result = "completed"
    /\ "sealed" \in status["runai"].artifacts

\* C15 as stated: the closing output of Run reflects the outcomes of the
\* namespaces, so the line "All namespaces processed successfully!" closes
\* only a run in which every namespace was collected.
C15_SummaryReflectsOutcomes ==
    (pc = "done" /\ stdout[Len(stdout)] = Printed("All namespaces processed successfully!", ""))
       => \A i \in 1..Len(Namespaces) : status[Namespaces[i]].result = "completed"

(***************************************************************************)
(* Properties of the scheduler dump.                                       *)
(***************************************************************************)

\* The errors CollectSchedulerInfo returns for its working directory and its
\* archive.
SchedDirectoryErrors ==
    {"failed to create temp directory", "failed to get current directory",
     "failed to change to temp directory"}
SchedArchiveErrors ==
    {"failed to change back to original directory", "failed to create archive"}

\* C14: only the failure to acquire a session and the failure to create the
\* working directory or the archive end a run early; whenever
\* CollectSchedulerInfo has returned anything but an error of its working
\* directory or of its archive, every kind was dumped and the archive sealed.
C14_OnlyDirectoryAndArchiveFailuresAbort ==
    (pc = "done" /\ retErr \notin SchedDirectoryErrors \cup SchedArchiveErrors)
        => /\ Len(dumped) = Len(SchedulerResources)
           /\ schedArchive.sealed

\* The files the scheduler dump has collected: those of the working
\* directory, and once it is removed those of the archive made from it.
SchedFiles == IF schedArchive.sealed THEN schedArchive.entries ELSE tempDir.files

singularOf(resourceType) ==
    (CHOOSE r \in Range(SchedulerResources) : r.resourceType = resourceType).singular

\* The manifests of a kind among the collected files.
ManifestsOf(resourceType) ==
    {name \in Range(ItemNames) :
        manifestFileName(singularOf(resourceType), name) \in DOMAIN SchedFiles}

\* The tokens of a line that are not white space.
IsInk(tok) == tok \notin Whitespace
Ink(line) == SelectSeq(line, IsInk)
IsComment(line) == Ink(line) # <<>> /\ Ink(line)[1] = "#"
IsBlank(line) == Ink(line) = <<>>

\* C16: a kind no candidate lists is not left out: when the write of the
\* placeholder meets no error, <kind>_list.txt holds comment lines that carry
\* the error, no manifest of the kind is written, dumpSchedulerResource
\* returns nil, and the placeholder is in the sealed archive.
C16_UnlistableKindLeavesPlaceholder ==
    \A i \in 1..Len(dumped) :
        LET d == dumped[i]
            f == listFileName(d.resourceType)
        IN (~d.listed /\ d.write = "ok")
              => /\ d.err = Nil
                 /\ f \in DOMAIN SchedFiles
                 /\ SchedFiles[f].whole
                 /\ \A k \in 1..Len(SchedFiles[f].text) : IsComment(SchedFiles[f].text[k])
                 /\ \E k \in 1..Len(SchedFiles[f].text) :
                       d.lastErr.kind \in Range(SchedFiles[f].text[k])
                 /\ ManifestsOf(d.resourceType) = {}
                 /\ schedArchive.sealed => f \in DOMAIN schedArchive.entries

C16_Witness ==
    /\ pc = "done"
    /\ retErr = Nil
    /\ schedArchive.sealed
    /\ ~dumped[1].listed
    /\ dumped[1].write = "ok"
    /\ dumped[1].lastErr.kind = "NotFound"
    /\ dumped[2].listed
    /\ listFileName("projects") \in DOMAIN schedArchive.entries

\* The data rows of a list file: its lines that are neither blank, nor a
\* comment, nor the header.
DataRows(text) ==
    {k \in 1..Len(text) : ~IsBlank(text[k]) /\ ~IsComment(text[k]) /\ text[k] # HeaderLine}

\* C17: a kind listed with n instances, its list file written without error:
\* the list file has exactly n data rows, one per instance, at most n
\* manifests are written and dumpSchedulerResource returns nil; with zero
\* instances the file holds the comment lines and the header alone and there
\* is no manifest.
C17_DataRowsAreTheListedInstances ==
    \A i \in 1..Len(dumped) :
        LET d == dumped[i]
            f == listFileName(d.resourceType)
        IN (d.listed /\ d.write = "ok")
              => /\ d.err = Nil
                 /\ f \in DOMAIN SchedFiles
                 /\ Cardinality(DataRows(SchedFiles[f].text)) = d.n
                 /\ {SchedFiles[f].text[k][1] : k \in DataRows(SchedFiles[f].text)}
                       = Range(SubSeq(ItemNames, 1, d.n))
                 /\ HeaderLine \in Range(SchedFiles[f].text)
                 /\ ManifestsOf(d.resourceType) \subseteq Range(SubSeq(ItemNames, 1, d.n))

C17_Witness ==
    /\ pc = "done"
    /\ schedArchive.sealed
    /\ dumped[1].listed /\ dumped[1].n = 1 /\ dumped[1].write = "ok"
    /\ ManifestsOf("projects") = {"a"}
    /\ dumped[2].listed /\ dumped[2].n = 0 /\ dumped[2].write = "ok"
    /\ ManifestsOf("queues") = {}
    /\ DataRows(schedArchive.entries[listFileName("queues")].text) = {}

\* C18: validateFileContent returns an error for a file it can read exactly
\* when every line of the file is blank or a comment; and in
\* CollectSchedulerInfo a list file that is flagged is a warning printed:
\* the loop goes on to the remaining kinds, the archive is made, and nil is
\* returned unless the archive itself fails.
C18_FlaggedIffNoMeaningfulLine ==
    /\ (resolved.fn = "validateFileContent" /\ resolved.readOk)
          => (resolved.res # Nil
                <=> \A k \in 1..Len(resolved.text) :
                       IsBlank(resolved.text[k]) \/ IsComment(resolved.text[k]))
    /\ \A i \in 1..Len(dumped) :
          LET d == dumped[i]
          IN /\ (d.err = Nil /\ listFileName(d.resourceType) \in DOMAIN SchedFiles)
                   => (d.flagged # Nil
                         <=> \A k \in 1..Len(SchedFiles[listFileName(d.resourceType)].text) :
                                \/ IsBlank(SchedFiles[listFileName(d.resourceType)].text[k])
                                \/ IsComment(SchedFiles[listFileName(d.resourceType)].text[k]))
             /\ d.flagged # Nil
                   => /\ Printed(d.flagged, d.resourceType) \in Range(stdout)
                      /\ schedIdx = Len(dumped) + 1
                      /\ pc = "done"
                            => /\ Len(dumped) = Len(SchedulerResources)
                               /\ retErr \in {Nil} \cup SchedArchiveErrors
                               /\ retErr = Nil => schedArchive.sealed

C18_Witness ==
    /\ pc = "done"
    /\ retErr = Nil
    /\ schedArchive.sealed
    /\ dumped[1].flagged # Nil
    /\ dumped[2].flagged = Nil /\ dumped[2].err = Nil
    /\ Len(dumped) = Len(SchedulerResources)

(***************************************************************************)
(* Properties of the network-service manifest of a workload.               *)
(***************************************************************************)

KsvcFile == workloadFile("ksvc.yaml")
KsvcCall == Call("get", "services")

\* C20: CollectWorkloadInfo fetches the ksvc manifest exactly when the
\* canonical kind is inferenceworkloads. For every other kind no ksvc call is
\* made and no ksvc file is written, listed or archived; for
\* inferenceworkloads the fetch is made before the archive, and when it fails
\* the failure is printed and createWorkloadArchive is still called, the run
\* returning nil when the archive is written.
C20_KsvcOnlyForInference ==
    /\ KsvcCall \in calls <=> "KSVC YAML" \in Range(StepsTaken)
    /\ "KSVC YAML" \in Range(StepsTaken) => canonicalType = "inferenceworkloads"
    /\ (canonicalType = "inferenceworkloads" /\ "Archive" \in Range(StepsTaken))
          => "KSVC YAML" \in Range(StepsTaken)
    /\ canonicalType # "inferenceworkloads"
          => /\ KsvcFile \notin DOMAIN cwdFiles
             /\ KsvcFile \notin Range(outputFiles)
             /\ KsvcFile \notin DOMAIN wlArchive.entries
    /\ (OutcomeOf("KSVC YAML") # {} /\ "ok" \notin OutcomeOf("KSVC YAML"))
          => /\ Printed("Failed to get", "KSVC YAML") \in Range(stdout)
             /\ KsvcFile \notin Range(outputFiles)
             /\ pc = "done"
                   => /\ "Archive" \in Range(StepsTaken)
                      /\ OutcomeOf("Archive") = {"ok"} => (retErr = Nil /\ wlArchive.sealed)

\* An inference workload whose ksvc could not be fetched: the archive is
\* sealed without it and nil is returned.
C20_Witness ==
    /\ pc = "done"
    /\ args.workloadType = "infw"
    /\ "fetchFail" \in OutcomeOf("KSVC YAML")
    /\ retErr = Nil
    /\ wlArchive.sealed
    /\ KsvcFile \notin DOMAIN wlArchive.entries

(***************************************************************************)
(* Properties of the calls made to the cluster.                            *)
(***************************************************************************)

\* C19: whatever entry point runs and however its steps end, every call
\* issued to the cluster is a get or a list (the namespace test is a get, the
\* log read a get of pods/log, the connectivity probe a list of nodes):
\* nothing is created, updated or deleted.
C19_OnlyReadCalls == \A c \in calls : c.verb \in {"get", "list"}

\* Run has gone through a namespace: the probe of the namespace, the pod
\* list and a container's log were all read.
C19_Witness ==
    /\ pc = "done"
    /\ {namespaceExistsCall, Call("list", "pods"), Call("get", "pods/log"),
        Call("get", "runaiconfigs")} \subseteq calls
    /\ status["runai"].result = "completed"

(***************************************************************************)
(* Properties of the pod logs of a workload bundle.                        *)
(***************************************************************************)

\* The pod logs getPodLogs listed: one element for each pod and container
\* whose log was fetched and written, in order.
ListedPodLogs ==
    SelectSeq(outputFiles, LAMBDA f : Len(f) = 5 /\ f[3] = "pod_logs")

\* C21: createWorkloadArchive writes one entry for each element of the list
\* it is given, so every pod and container whose log was fetched and written
\* has its own entry in the sealed archive, and no entry name occurs twice,
\* exactly when the names getPodLogs listed are all different.
C21_EachContainerLogIsItsOwnEntry ==
    wlArchive.sealed => NoDuplicates(ListedPodLogs)

(***************************************************************************)
(* Properties of concurrent workload collections.                          *)
(***************************************************************************)

\* A call that has listed files and has not yet archived them.
InFlight(p) == runs[p].pc \notin {"getNamespaceByLabel", "cleanup", "done"}

\* C22: CollectWorkloadInfo calls running at the same time for different
\* projects do not interfere: every entry of a call's archive holds what
\* that call fetched for its own project, and every file a call has listed
\* and not yet archived is still in place with what that call wrote.
C22_ConcurrentRunsDoNotInterfere ==
    \A p \in ConcurrentProjects :
        /\ \A f \in DOMAIN runs[p].archive.entries : runs[p].archive.entries[f] = p
        /\ InFlight(p)
              => \A k \in 1..Len(runs[p].outputFiles) :
                    /\ runs[p].outputFiles[k] \in DOMAIN sharedDir
                    /\ sharedDir[runs[p].outputFiles[k]] = p

(***************************************************************************)
(* Termination of the three collections.                                   *)
(***************************************************************************)

\* The entry point has returned (or the process has ended).
Terminated == pc \in {"done", "panic", "exit"}

\* What a pass ends in: a failure returned, an archive written, or every
\* namespace of Run skipped, completed or reported as failed.
TerminalOutcome ==
    \/ retErr # Nil
    \/ pc = "panic"
    \/ wlArchive.exists
    \/ schedArchive.exists
    \/ \A n \in DOMAIN status : status[n].result \in {"skipped", "completed", "failed"}

DumpedKinds == [i \in 1..Len(dumped) |-> dumped[i].resourceType]

\* One step of a pass goes forward: the loops over the namespaces and over
\* the kinds do not go back, a namespace that has its result keeps it, the
\* steps and kinds done so far stay done, and none is done a second time.
Forward ==
    /\ ~Terminated
    /\ nsIdx' >= nsIdx
    /\ schedIdx' >= schedIdx
    /\ \A n \in DOMAIN status :
          /\ status[n].result # "pending" => status'[n] = status[n]
          /\ IsPrefix(invoked[n], invoked'[n])
          /\ NoDuplicates(invoked'[n])
    /\ IsPrefix(wlSteps, wlSteps')
    /\ NoDuplicates([i \in 1..Len(wlSteps') |-> wlSteps'[i].step])
    /\ IsPrefix(dumped, dumped')
    /\ NoDuplicates(DumpedKinds')
    /\ (pc = "scheduler_dump" /\ schedIdx <= Len(SchedulerResources))
          => /\ schedIdx' = schedIdx + 1
             /\ Len(dumped') = Len(dumped) + 1

FetchSteps == SelectSeq(wlSteps, LAMBDA st : st.step # "Archive")

\* C24: for a valid type, when the list of the namespaces labelled with the
\* project fails or is empty, CollectWorkloadInfo returns 'no namespace
\* found for project' having made no other call, taken no collection step
\* and written no file or archive; otherwise the first namespace of the
\* list is the one every collection step fetches from.
C24_NamespaceOfTheProject ==
    resolved.fn = "getNamespaceByLabel" =>
        IF ~resolved.listOk \/ resolved.items = <<>>
        THEN /\ pc = "done"
             /\ retErr = "no namespace found for project"
             /\ calls = {Call("list", "namespaces")}
             /\ wlSteps = <<>>
             /\ outputFiles = <<>>
             /\ cwdFiles = <<>>
             /\ ~wlArchive.exists
        ELSE /\ namespace = resolved.items[1]
             /\ \A i \in 1..Len(FetchSteps) : FetchSteps[i].namespace = resolved.items[1]

C24_Witness ==
    /\ resolved.fn = "getNamespaceByLabel"
    /\ Len(resolved.items) = 2
    /\ wlArchive.sealed
    /\ Len(FetchSteps) >= 5

(***************************************************************************)
(* Properties of the loops of the scheduler dump.                          *)
(***************************************************************************)

KindsInOrder == [i \in 1..Len(SchedulerResources) |-> SchedulerResources[i].resourceType]

\* C25: the scheduler dump takes projects, queues, nodepools and departments
\* in that order, each once; an instance of a kind is fetched only when the
\* list file of the kind was written; neither the failure of a kind nor the
\* failure to get, convert or write an instance ends the loops: once the
\* loop over the kinds is left every kind has been taken, the errors
\* CollectSchedulerInfo returns are those of its directory and its archive,
\* and the manifest loop writes the manifest of every instance whose get,
\* conversion and write met no error, whatever happened to the others.
C25_KindsInOrderFailuresOnlyWarn ==
    /\ IsPrefix(DumpedKinds, KindsInOrder)
    /\ (pc = "scheduler_dump" => Len(dumped) = schedIdx - 1)
    /\ (pc \in {"scheduler_cleanup", "done"} /\ dumped # <<>>)
          => Len(dumped) = Len(SchedulerResources)
    /\ retErr \in {Nil, "cannot connect to Kubernetes cluster"}
                    \cup SchedDirectoryErrors \cup SchedArchiveErrors
    /\ (pc = "done" /\ Len(dumped) = Len(SchedulerResources))
          => (schedArchive.sealed \/ retErr \in SchedArchiveErrors)
    /\ \A i \in 1..Len(dumped) :
          Call("get", dumped[i].resourceType) \in calls
             => /\ listFileName(dumped[i].resourceType) \in DOMAIN SchedFiles
                /\ SchedFiles[listFileName(dumped[i].resourceType)].whole
    /\ resolved.fn = "extractManifests"
          => \A i \in 1..SampleInstances :
                LET f == manifestFileName("project", ItemNames[i])
                IN /\ f \in DOMAIN resolved.res
                      <=> resolved.items[i] \in {"ok", "writeFail"}
                   /\ f \in DOMAIN resolved.res
                      => (resolved.res[f].whole <=> resolved.items[i] = "ok")

\* A sealed archive after a kind that could not be listed, a kind whose
\* list file could not be written and a kind whose instance was not got.
C25_Witness ==
    /\ schedArchive.sealed
    /\ \E i, j, k \in 1..Len(dumped) :
          /\ ~dumped[i].listed
          /\ dumped[j].err # Nil
          /\ dumped[k].n > 0 /\ dumped[k].err = Nil
          /\ ManifestsOf(dumped[k].resourceType) = {}

(***************************************************************************)
(* Properties of the archive of a workload bundle.                         *)
(***************************************************************************)

\* C26: no empty workload archive is made: when createWorkloadArchive is
\* reached with no collected file it ends with 'no files to archive',
\* CollectWorkloadInfo returns an error, and the run has created no archive
\* file.
C26_NoEmptyWorkloadArchive ==
    /\ (OutcomeOf("Archive") # {} /\ outputFiles = <<>>)
          => /\ OutcomeOf("Archive") = {"noFiles"}
             /\ pc = "done"
             /\ retErr = "failed to create archive"
             /\ ~wlArchive.exists
    /\ wlArchive.exists => outputFiles # <<>>
    /\ wlArchive.sealed => DOMAIN wlArchive.entries # {}

C26_Witness ==
    /\ OutcomeOf("Archive") = {"noFiles"}
    /\ Len(wlSteps) >= 6
    /\ pc = "done"

(***************************************************************************)
(* Properties of the namespace test of Run.                                *)
(***************************************************************************)

GetFailed(ns) == status[ns].get \in NamespaceGetErrors

\* C27: whatever error the get of a namespace returns (not found, transport
\* failure, forbidden), Run takes the namespace for missing: it prints the
\* skip line, makes no directory and no archive for it and invokes no step;
\* when this happens to every namespace Run still returns nil, having made
\* no archive at all and printed its closing line.
C27_AnyGetErrorMeansMissing ==
    /\ \A i \in 1..Len(Namespaces) :
          GetFailed(Namespaces[i])
             => /\ status[Namespaces[i]].result = "skipped"
                /\ status[Namespaces[i]].artifacts = {}
                /\ invoked[Namespaces[i]] = <<>>
                /\ Printed("does not exist. Skipping.", Namespaces[i]) \in Range(stdout)
    /\ (pc = "done" /\ \A i \in 1..Len(Namespaces) : GetFailed(Namespaces[i]))
          => /\ retErr = Nil
             /\ Call("list", "pods") \notin calls
             /\ ~dir.exists
             /\ ~archive.exists
             /\ stdout[Len(stdout)] = Printed("All namespaces processed successfully!", "")

\* Run has returned; the get of one namespace failed in transport and the
\* get of the other was forbidden.
C27_Witness ==
    /\ pc = "done"
    /\ status["runai-backend"].get = "Transport"
    /\ status["runai"].get = "Forbidden"

(***************************************************************************)
(* Properties of the validation warning of the scheduler dump.             *)
(***************************************************************************)

\* The list file of a dumped kind is the placeholder written for a kind
\* that could not be listed.
IsPlaceholder(d) ==
    /\ listFileName(d.resourceType) \in DOMAIN SchedFiles
    /\ SchedFiles[listFileName(d.resourceType)] =
          FileOf(errorOutput(d.resourceType, d.lastErr))

ReturnedAfterEntering == pc = "done" /\ cwd.entered

CallerResources ==
    ({runaiActions[i].resource : i \in 1..Len(runaiActions)}
        \cup {backendActions[i].resource : i \in 1..Len(backendActions)}
        \cup {"rj", "ksvc"}
        \cup {getCanonicalWorkloadType(t) : t \in WorkloadTypeInputs}) \ {""}

UnknownResourceType(res) == res.err.kind = "unknown resource type"

\* C30: every name a caller passes to getResourceAsYAML is a key of its
\* candidate table with at least one coordinate, so no caller gets 'unknown
\* resource type', whatever the cluster answers; a name that is not a key
\* gets that error with no candidate probed and no text.
C30_CallersPassKnownResources ==
    /\ \A r \in CallerResources :
          /\ r \in ResourceKeys
          /\ Len(gvrCandidates[r]) >= 1
          /\ \A out \in [1..Len(gvrCandidates[r]) -> ApiOutcomes], marshalOk \in BOOLEAN :
                ~UnknownResourceType(getResourceAsYAML(r, out, marshalOk))
    /\ (resolved.fn = "getCanonicalWorkloadType" /\ resolved.res # "")
          => resolved.res \in ResourceKeys
    /\ resolved.fn = "getResourceAsYAML"
          => /\ UnknownResourceType(resolved.res) <=> resolved.resource \notin ResourceKeys
             /\ resolved.resource \notin ResourceKeys
                   => /\ resolved.res.probed = <<>>
                      /\ resolved.res.text = NoText
             /\ resolved.resource \in CallerResources
                   => Len(resolved.res.probed) >= 1

\* getResourceAsYAML applied to a name that is not a key.
C30_Witness ==
    /\ resolved.fn = "getResourceAsYAML"
    /\ resolved.resource = "bogus"
    /\ UnknownResourceType(resolved.res)
====
